---- MODULE Spec2Model ----
(***************************************************************************)
(* State-machine model of the ticket lifecycle and the bug tracker of the  *)
(* Discord bot.  Three variants of the bot live in the repository; the     *)
(* variable `variant` says which one is running:                           *)
(*   "index" : src/index.js                                                *)
(*   "p001"  : src/unnamed/part_001                                        *)
(*   "p003"  : src/unnamed/part_003                                        *)
(* Every handler is an async function: it runs atomically from one await   *)
(* to the next, so each action below is the resolution of the platform     *)
(* call a handler was waiting for, followed by the synchronous block up to *)
(* its next await.  A platform call can fail wherever the code catches or  *)
(* propagates its failure.  An input of a handler (the invoking user, the  *)
(* user option, the entry point) is drawn in the step that first reads it: *)
(* no other handler can observe it earlier.                                *)
(***************************************************************************)
EXTENDS Integers, Sequences, FiniteSets, TLC

\* ---------------------------------------------------------------- bounds
MaxTasks == 2        \* interactions dispatched in one run
MaxSlots == 2        \* handlers in flight at the same time
MaxTime == 3        \* largest value nowMs() returns
MaxBugOps == 2       \* bug commands, modals and messages handled in one run
MaxCalls == 2        \* direct calls of the bug store functions in one run
MaxIngest == 1       \* messages ingested in one run

\* ------------------------------------------------------------ environment
Null == "null"
Variants == {"index", "p001", "p003"}
TheGuild == "g1"
OtherGuild == "g2"
Guilds == {TheGuild}
Users == {"adm", "stf", "usr"}
BotUser == "bot"
Targets == Users \cup {BotUser}
StaffRole == "r1"
Me == "me"
LogChannel == "log"
Category == "cat"
General == 0
InputChannel == "in"
BoardChannel == "bd"
UpdatesChannel == "up"
NoMessage == 0
Slots == 1..MaxSlots
ChanIds == 1..MaxTasks

\* member.permissions.has(ManageGuild): a fact of the platform
HasManageGuild(u) == u = "adm"
\* member.roles.cache: a fact of the platform
MemberRoles(u) == IF u = "stf" THEN {StaffRole} ELSE {}
IsBot(u) == u \in {BotUser, Me}

VARIABLES
  variant,        \* which variant of the bot runs
  clock,          \* the value nowMs() returned last
  guildSettings,  \* Map guildId -> settings record
  tickets,        \* Map channelId -> ticket record
  chanState,      \* platform: channel id -> "none" | "live" | "deleted"
  overwrites,     \* platform: channel id -> users holding an allow overwrite
  notices,        \* platform: channel id -> closing notices posted there
  tried,          \* per channel, the notifications closeTicketChannel attempted
  timers,         \* pending setTimeout(channel.delete) per channel
  deleteCalls,    \* channel.delete calls made so far per channel
  tasks,          \* the handlers in flight
  dispatched,     \* interactions dispatched so far
  ev,             \* what the last step did: calls, replies, messages posted
  allocs,         \* per guild, the numbers nextTicketNumber returned, in order
  bugStore,       \* Map guildId -> { counter, items }
  board,          \* platform: what each board message the bot posted shows
  boardAt,        \* platform: the channel each of these messages was posted in
  bugTasks,       \* the bug handlers in flight
  bugOps,         \* bug commands, modals and messages handled so far
  vouchStore,     \* Map guildId -> { counter, items }
  users,          \* Map guildId:userId -> { xp, level, balance, lastDailyMs }
  wall,           \* what Date.now() returns to the economy and vouch functions
  xpCall,         \* the addXp call that is running its level-up loop
  ledgerOps       \* vouch, XP and economy calls made so far

ticketVars == <<tickets, chanState, overwrites, notices, tried, timers, deleteCalls,
                tasks, dispatched, allocs>>

bugVars == <<bugStore, board, boardAt, bugTasks, bugOps>>

ledgerVars == <<vouchStore, users, wall, xpCall, ledgerOps>>

vars == <<variant, clock, guildSettings, tickets, chanState, overwrites, notices,
          tried, timers, deleteCalls, tasks, dispatched, ev, allocs,
          bugStore, board, boardAt, bugTasks, bugOps,
          vouchStore, users, wall, xpCall, ledgerOps>>

\* --------------------------------------------------------------- settings
DefaultSettings ==
  [log_channel_id |-> Null, ticket_category_id |-> Null, ticket_counter |-> 0,
   ticket_staff_role_id |-> Null, bug_input_channel_id |-> Null,
   bug_board_channel_id |-> Null, bug_board_message_id |-> NoMessage,
   bug_updates_channel_id |-> Null]

getSettings(gs, g) == gs[g]

setSettings(gs, g, patch) ==
  [gs EXCEPT ![g] = [k \in DOMAIN gs[g] |->
                       IF k \in DOMAIN patch THEN patch[k] ELSE gs[g][k]]]

NextNumber(s) == s.ticket_counter + 1

\* nextTicketNumber without writing the incremented counter back
nextTicketNumber_NotSaved(gs, g) ==
  [num |-> NextNumber(getSettings(gs, g)), gs |-> gs]

nextTicketNumber(gs, g) ==
  LET next == NextNumber(getSettings(gs, g))
  IN  [num |-> next, gs |-> setSettings(gs, g, [ticket_counter |-> next])]

\* nowMs(): the clock never runs backwards
NowMs == {n \in {clock, clock + 1} : n <= MaxTime}

\* ---------------------------------------------------------------- tickets
\* tickets.get(id) of a channel without entry is undefined: NoTicket stands for it
NoTicket ==
  [guildId |-> Null, ownerId |-> Null, status |-> "none", closedAtMs |-> 0,
   closedById |-> Null, assignedStaffIds |-> {}, addedUserIds |-> {}]

\* a record that is stored without its owner
NewTicket_NoOwner(g, owner) ==
  [guildId |-> g, ownerId |-> Null, status |-> "open", closedAtMs |-> 0,
   closedById |-> Null, assignedStaffIds |-> {}, addedUserIds |-> {}]

NewTicket(g, owner) ==
  [guildId |-> g, ownerId |-> owner, status |-> "open", closedAtMs |-> 0,
   closedById |-> Null, assignedStaffIds |-> {}, addedUserIds |-> {}]

getTicket(tk, c) == IF c \in DOMAIN tk THEN tk[c] ELSE NoTicket

Missing(ticket) == ticket.status = "none"

\* isTicketStaffMember that lets every fetched member pass
isTicketStaffMember_AnyMember(gs, g, member) == member # Null

isTicketStaffMember(gs, g, member) ==
  LET s == getSettings(gs, g)
  IN  IF member = Null THEN FALSE
      ELSE IF HasManageGuild(member) THEN TRUE
      ELSE IF s.ticket_staff_role_id # Null
              /\ s.ticket_staff_role_id \in MemberRoles(member) THEN TRUE
      ELSE FALSE

\* canManageTicket without its owner clause
canManageTicket_NoOwner(gs, g, member, ticket) ==
  IF member = Null \/ Missing(ticket) THEN FALSE
  ELSE IF isTicketStaffMember(gs, g, member) THEN TRUE
  ELSE IF member \in ticket.assignedStaffIds THEN TRUE
  ELSE FALSE

canManageTicket(gs, g, member, ticket) ==
  IF member = Null \/ Missing(ticket) THEN FALSE
  ELSE IF isTicketStaffMember(gs, g, member) THEN TRUE
  ELSE IF ticket.ownerId = member THEN TRUE
  ELSE IF member \in ticket.assignedStaffIds THEN TRUE
  ELSE FALSE

\* the guard without its status test
CloseRefused_IgnoresStatus(ticket, g) == Missing(ticket) \/ ticket.guildId # g

\* the guard of closeTicketChannel
CloseRefused(ticket, g) ==
  Missing(ticket) \/ ticket.guildId # g \/ ticket.status # "open"

\* ----------------------------------------------------------------- ledgers
\* ensureUser: the record a user gets on first access
NewUser == [xp |-> 0, level |-> 0, balance |-> 0, lastDailyMs |-> 0]

\* the addXp call in progress: its arguments, the level and XP it found, and
\* its local leveledUp
NoXpCall == [pc |-> "idle", user |-> Null, amount |-> 0, was |-> 0, xpWas |-> 0,
             leveledUp |-> FALSE]

\* the vouch store, the users Map and the clock at start-up: no vouch, no user
\* on record
NoLedger ==
  /\ vouchStore = [g \in Guilds |-> [counter |-> 0, items |-> <<>>]]
  /\ users = [u \in Users |-> NewUser]
  /\ wall = 1
  /\ xpCall = NoXpCall
  /\ ledgerOps = 0

\* ------------------------------------------------------------------ tasks
Idle == [op |-> "idle", ch |-> General, target |-> Null, pc |-> "idle", log |-> FALSE]

\* nothing observable happened
Quiet == [op |-> Null, via |-> Null, ch |-> General, id |-> 0, by |-> Null,
          target |-> Null, result |-> Null, posts |-> {},
          closeCall |-> [g |-> Null, c |-> General],
          inCh |-> Null, msg |-> 0, refresh |-> FALSE,
          announce |-> [status |-> Null, note |-> <<>>, mention |-> Null],
          call |-> [fn |-> Null, id |-> 0, status |-> Null, assignedToId |-> Null,
                    byId |-> Null, text |-> <<>>, attachments |-> <<>>, was |-> Null,
                    ret |-> 0]]

Event(op, ch, by, target, result, posts) ==
  [Quiet EXCEPT !.op = op, !.ch = ch, !.by = by, !.target = target,
                !.result = result, !.posts = posts]

FreeSlot(t) ==
  /\ tasks[t].op = "idle"
  /\ \A u \in Slots : u < t => tasks[u].op # "idle"
  /\ dispatched < MaxTasks

\* sendLog up to its first await: without log channel it returns at once
LogCalled(g) == getSettings(guildSettings, g).log_channel_id # Null

\* sendLog resolved: its fetch and its send swallow their failure
LogPosts(called) == {{}} \cup (IF called THEN {{"log"}} ELSE {})

\* the handler of slot t calls sendLog and awaits it
GotoLog(t, pc, e) ==
  /\ tasks' = [tasks EXCEPT ![t].pc = pc, ![t].target = Null,
                            ![t].log = LogCalled(TheGuild)]
  /\ ev' = e

\* the handler of slot t returns after replying `result`
Finish(t, e) ==
  /\ tasks' = [tasks EXCEPT ![t] = Idle]
  /\ ev' = e

\* the handler of slot t goes on to its next await
Goto(t, pc, e) ==
  /\ tasks' = [tasks EXCEPT ![t].pc = pc]
  /\ ev' = e

Posted(posts) == [Quiet EXCEPT !.posts = posts]

\* the platform refuses every call on a channel that is gone
Live(c) == c \in ChanIds /\ chanState[c] = "live"

\* ------------------------------------------------------ settings commands
\* /setlog: setSettings(guild.id, { log_channel_id })
SetLog(g) ==
  /\ guildSettings[g].log_channel_id # LogChannel
  /\ guildSettings' = setSettings(guildSettings, g, [log_channel_id |-> LogChannel])
  /\ ev' = Quiet
  /\ UNCHANGED <<variant, clock, tickets, chanState, overwrites, notices, tried,
                 timers, deleteCalls, tasks, dispatched, allocs>>

\* /setticketstaffrole
SetTicketStaffRole(g) ==
  /\ variant # "p003"
  /\ guildSettings[g].ticket_staff_role_id # StaffRole
  /\ guildSettings' = setSettings(guildSettings, g, [ticket_staff_role_id |-> StaffRole])
  /\ ev' = Quiet
  /\ UNCHANGED <<variant, clock, tickets, chanState, overwrites, notices, tried,
                 timers, deleteCalls, tasks, dispatched, allocs>>

\* /clearticketstaffrole
ClearTicketStaffRole(g) ==
  /\ variant # "p003"
  /\ guildSettings[g].ticket_staff_role_id # Null
  /\ guildSettings' = setSettings(guildSettings, g, [ticket_staff_role_id |-> Null])
  /\ ev' = Quiet
  /\ UNCHANGED <<variant, clock, tickets, chanState, overwrites, notices, tried,
                 timers, deleteCalls, tasks, dispatched, allocs>>

\* ------------------------------------------------- ticket create handler
\* an exception leaving createTicketChannel: the slash-command branch sits in
\* the try block, the panel-button branch does not
FinishThrow(t) ==
  \E via \in {"cmd", "button"} :
    Finish(t, [Event("create", General, Null, Null,
                     IF via = "cmd" THEN "error_reply" ELSE "unhandled", {})
               EXCEPT !.via = via])

\* /ticket create, or the panel button: up to `await guild.members.fetch`
DispatchCreate(t) ==
  /\ FreeSlot(t)
  /\ dispatched' = dispatched + 1
  /\ tasks' = [tasks EXCEPT ![t] = [Idle EXCEPT !.op = "create", !.pc = "c_member"]]
  /\ ev' = Quiet
  /\ UNCHANGED <<variant, clock, guildSettings, tickets, chanState, overwrites,
                 notices, tried, timers, deleteCalls, allocs>>

\* members.fetch resolved; createTicketChannel starts with
\* findOrCreateTicketCategory up to its first await
CreateMember(t) ==
  /\ tasks[t].pc = "c_member"
  /\ \E ok \in BOOLEAN, via \in {"cmd", "button"} :
       IF ~ok
       THEN Finish(t, [Event("create", General, Null, Null,
                         IF variant = "p003" /\ via = "cmd"
                         THEN "error_reply" ELSE "no_member", {})
                       EXCEPT !.via = via])
       ELSE Goto(t, IF getSettings(guildSettings, TheGuild).ticket_category_id # Null
                    THEN "c_catfetch" ELSE "c_catcreate", Quiet)
  /\ UNCHANGED <<variant, clock, guildSettings, tickets, chanState, overwrites,
                 notices, tried, timers, deleteCalls, dispatched, allocs>>

\* createTicketChannel after the category is settled: s = getSettings,
\* num = nextTicketNumber, then the bot member is looked up
AllocateNumber(t, gs1) ==
  LET r == nextTicketNumber(gs1, TheGuild)
  IN  /\ guildSettings' = r.gs
      /\ allocs' = [allocs EXCEPT ![TheGuild] = Append(@, r.num)]
      /\ IF variant = "p003"
         THEN \E meCached \in BOOLEAN :
                IF meCached THEN Goto(t, "c_mkch", Quiet) ELSE FinishThrow(t)
         ELSE Goto(t, "c_me", Quiet)

\* channels.fetch(ticket_category_id) resolved
CreateCatFetch(t) ==
  /\ tasks[t].pc = "c_catfetch"
  /\ \E found \in BOOLEAN :
       IF found
       THEN AllocateNumber(t, guildSettings)
       ELSE /\ Goto(t, "c_catcreate", Quiet)
            /\ UNCHANGED <<guildSettings, allocs>>
  /\ UNCHANGED <<variant, clock, tickets, chanState, overwrites, notices, tried,
                 timers, deleteCalls, dispatched>>

\* channels.create(category) resolved
CreateCatCreate(t) ==
  /\ tasks[t].pc = "c_catcreate"
  /\ \E created \in BOOLEAN :
       AllocateNumber(t,
         IF created
         THEN setSettings(guildSettings, TheGuild, [ticket_category_id |-> Category])
         ELSE guildSettings)
  /\ UNCHANGED <<variant, clock, tickets, chanState, overwrites, notices, tried,
                 timers, deleteCalls, dispatched>>

\* getMeMember resolved
CreateMe(t) ==
  /\ tasks[t].pc = "c_me"
  /\ \E me \in BOOLEAN :
       IF me THEN Goto(t, "c_mkch", Quiet) ELSE FinishThrow(t)
  /\ UNCHANGED <<variant, clock, guildSettings, tickets, chanState, overwrites,
                 notices, tried, timers, deleteCalls, dispatched, allocs>>

FreshChannel == CHOOSE c \in ChanIds :
                  chanState[c] = "none" /\ \A d \in ChanIds : d < c => chanState[d] # "none"

\* the per-user overwrites createTicketChannel passes to channels.create
TicketOverwrites(owner) == {owner, Me}

\* guild.channels.create resolved; tickets.set, then the welcome embed is sent
CreateChannel(t) ==
  /\ tasks[t].pc = "c_mkch"
  /\ \E ok \in BOOLEAN, owner \in Users :
       IF ~ok
       THEN /\ FinishThrow(t)
            /\ UNCHANGED <<tickets, chanState, overwrites>>
       ELSE LET c == FreshChannel IN
            /\ chanState' = [chanState EXCEPT ![c] = "live"]
            /\ overwrites' = [overwrites EXCEPT ![c] = TicketOverwrites(owner)]
            /\ tickets' = [tickets EXCEPT ![c] = NewTicket(TheGuild, owner)]
            /\ tasks' = [tasks EXCEPT ![t].ch = c, ![t].pc = "c_welcome"]
            /\ ev' = Event("create", c, owner, Null, "channel", {})
  /\ UNCHANGED <<variant, clock, guildSettings, notices, tried, timers, deleteCalls,
                 dispatched, allocs>>

\* ch.send(welcome).catch resolved; sendLog is called
CreateWelcome(t) ==
  /\ tasks[t].pc = "c_welcome"
  /\ \E ok \in BOOLEAN :
       GotoLog(t, "c_log",
               Event("create", tasks[t].ch, Null, Null, "welcome",
                     IF ok /\ Live(tasks[t].ch) THEN {"welcome"} ELSE {}))
  /\ UNCHANGED <<variant, clock, guildSettings, tickets, chanState, overwrites,
                 notices, tried, timers, deleteCalls, dispatched, allocs>>

\* sendLog resolved; createTicketChannel returns ch and the handler replies
CreateLog(t) ==
  /\ tasks[t].pc = "c_log"
  /\ \E posts \in LogPosts(tasks[t].log) :
       Finish(t, Event("create", tasks[t].ch, Null, Null, "created", posts))
  /\ UNCHANGED <<variant, clock, guildSettings, tickets, chanState, overwrites,
                 notices, tried, timers, deleteCalls, dispatched, allocs>>

CreateStep(t) ==
  \/ CreateMember(t)
  \/ CreateCatFetch(t)
  \/ CreateCatCreate(t)
  \/ CreateMe(t)
  \/ CreateChannel(t)
  \/ CreateWelcome(t)
  \/ CreateLog(t)

\* ------------------------------------------------------ closeTicketChannel
\* the two notifications in the order the variant attempts them
CloseOrder == IF variant = "p003" THEN <<"log", "notice">> ELSE <<"notice", "log">>

\* closeTicketChannel without its setTimeout
ScheduleDelete_Never(tm, c) == tm

\* setTimeout(() => channel.delete(...).catch(() => null), 10_000)
ScheduleDelete(tm, c) == [tm EXCEPT ![c] = @ + 1]

\* closeTicketChannel(guild, channel, closedById) up to its first await, called
\* by the handler in slot t
closeTicketChannel(t, g, c, by, op) ==
  LET ticket == getTicket(tickets, c)
      call == [g |-> g, c |-> c]
  IN  IF CloseRefused(ticket, g)
      THEN /\ tasks' = [tasks EXCEPT ![t] = Idle]
           /\ ev' = [Event(op, c, by, Null, "not_open", {}) EXCEPT !.closeCall = call]
           /\ UNCHANGED <<clock, tickets, tried>>
      ELSE \E now \in NowMs :
           /\ clock' = now
           /\ tickets' = [tickets EXCEPT ![c].status = "closed",
                                         ![c].closedAtMs = now,
                                         ![c].closedById =
                                            IF variant = "p003" THEN by ELSE @]
           /\ tried' = [tried EXCEPT ![c] = @ \cup {CloseOrder[1]}]
           /\ tasks' = [tasks EXCEPT ![t] =
                          [op |-> op, ch |-> c, target |-> Null,
                           pc |-> IF CloseOrder[1] = "log" THEN "cl_log" ELSE "cl_notice",
                           log |-> CloseOrder[1] = "log" /\ LogCalled(g)]]
           /\ ev' = [Event(op, c, by, Null, "closing", {}) EXCEPT !.closeCall = call]

\* channel.send(closing notice).catch resolved
CloseNotice(t) ==
  LET c == tasks[t].ch IN
  /\ tasks[t].pc = "cl_notice"
  /\ \E ok \in BOOLEAN :
       LET posted == ok /\ Live(c) IN
       /\ notices' = [notices EXCEPT ![c] = IF posted THEN @ + 1 ELSE @]
       /\ IF CloseOrder[2] = "log"
          THEN /\ tried' = [tried EXCEPT ![c] = @ \cup {"log"}]
               /\ GotoLog(t, "cl_log", Posted(IF posted THEN {"notice"} ELSE {}))
               /\ UNCHANGED timers
          ELSE /\ timers' = ScheduleDelete(timers, c)
               /\ Finish(t, Event(tasks[t].op, c, Null, Null, "closed",
                                  IF posted THEN {"notice"} ELSE {}))
               /\ UNCHANGED tried
  /\ UNCHANGED <<variant, clock, guildSettings, tickets, chanState, overwrites,
                 deleteCalls, dispatched, allocs>>

\* sendLog(closing log) resolved
CloseLog(t) ==
  LET c == tasks[t].ch IN
  /\ tasks[t].pc = "cl_log"
  /\ \E posts \in LogPosts(tasks[t].log) :
       IF CloseOrder[2] = "notice"
       THEN /\ tried' = [tried EXCEPT ![c] = @ \cup {"notice"}]
            /\ Goto(t, "cl_notice", Posted(posts))
            /\ UNCHANGED timers
       ELSE /\ timers' = ScheduleDelete(timers, c)
            /\ Finish(t, Event(tasks[t].op, c, Null, Null, "closed", posts))
            /\ UNCHANGED tried
  /\ UNCHANGED <<variant, clock, guildSettings, tickets, chanState, overwrites,
                 notices, deleteCalls, dispatched, allocs>>

\* the timer set by closeTicketChannel fires: channel.delete(...).catch
TimerFire(c) ==
  /\ timers[c] > 0
  /\ timers' = [timers EXCEPT ![c] = @ - 1]
  /\ deleteCalls' = [deleteCalls EXCEPT ![c] = @ + 1]
  /\ \E ok \in BOOLEAN :
       chanState' = [chanState EXCEPT ![c] = IF ok /\ Live(c) THEN "deleted" ELSE @]
  /\ ev' = Quiet
  /\ UNCHANGED <<variant, clock, guildSettings, tickets, overwrites, notices, tried,
                 tasks, dispatched, allocs>>

\* /ticket close of part_003: only the channel type is checked
DispatchClose003(t) ==
  /\ variant = "p003"
  /\ FreeSlot(t)
  /\ dispatched' = dispatched + 1
  /\ \E c \in {General} \cup {d \in ChanIds : Live(d)}, by \in Users :
       closeTicketChannel(t, TheGuild, c, by, "close")
  /\ UNCHANGED <<variant, guildSettings, chanState, overwrites, notices, timers,
                 deleteCalls, allocs>>

\* ------------------------------------------------ /ticket <sub> handlers
TicketOps ==
  IF variant = "index"
  THEN {"info", "close", "add", "remove", "claim", "assign", "unassign", "transcript"}
  ELSE {"close", "add", "remove", "claim", "assign", "unassign", "transcript"}

\* /ticket <sub> inside a text channel: getTicket, then `await members.fetch`
DispatchTicket(t) ==
  /\ variant # "p003"
  /\ FreeSlot(t)
  /\ dispatched' = dispatched + 1
  /\ \E c \in {General} \cup {d \in ChanIds : Live(d)} :
       IF Missing(getTicket(tickets, c))
       THEN /\ ev' = Event("ticket", c, Null, Null, "not_ticket", {})
            /\ UNCHANGED tasks
       ELSE /\ tasks' = [tasks EXCEPT ![t] =
                           [Idle EXCEPT !.op = "ticket", !.ch = c, !.pc = "t_member"]]
            /\ ev' = Quiet
  /\ UNCHANGED <<variant, clock, guildSettings, tickets, chanState, overwrites,
                 notices, tried, timers, deleteCalls, allocs>>

\* add, remove: the await after the sets of the ticket were changed is
\* sendLog in part_001 and channel.send in index.js
AfterSets(t, e) ==
  IF variant = "p001"
  THEN GotoLog(t, "t_log", e)
  ELSE /\ tasks' = [tasks EXCEPT ![t].pc = "t_send", ![t].target = Null]
       /\ ev' = e

\* the staff-only subcommands once the staff check has passed, up to their
\* first await
StaffOp(t, op, c, by) ==
  \E target \in Targets :
    LET go(pc, tg) ==
          /\ tasks' = [tasks EXCEPT ![t].op = op, ![t].pc = pc, ![t].target = tg]
          /\ ev' = Event(op, c, by, tg, "permitted", {})
    IN  CASE op = "add" ->
               /\ IF variant = "index" /\ IsBot(target)
                  THEN Finish(t, Event(op, c, by, target, "refused_bot", {}))
                  ELSE go("add_grant", target)
               /\ UNCHANGED tickets
          [] op = "remove" ->
               /\ go("rm_revoke", target)
               /\ UNCHANGED tickets
          [] op = "claim" ->
               /\ tickets' = [tickets EXCEPT ![c].assignedStaffIds = @ \cup {by}]
               /\ go("grant", by)
          [] op = "assign" ->
               IF variant = "index"
               THEN /\ go("as_fetch", target)
                    /\ UNCHANGED tickets
               ELSE /\ tickets' = [tickets EXCEPT ![c].assignedStaffIds = @ \cup {target}]
                    /\ go("grant", target)
          [] op = "unassign" ->
               /\ tickets' = [tickets EXCEPT ![c].assignedStaffIds = @ \ {target}]
               /\ go("revoke", target)

\* members.fetch(interaction.user.id).catch resolved: the permission checks
\* of the subcommand and its synchronous block up to the next await
TicketGate(t) ==
  /\ variant # "p003"
  /\ tasks[t].pc = "t_member"
  /\ \E op \in TicketOps, by \in Users, ok \in BOOLEAN :
       LET member == IF ok THEN by ELSE Null
           c      == tasks[t].ch
           staff  == isTicketStaffMember(guildSettings, TheGuild, member)
           manage == canManageTicket(guildSettings, TheGuild, member, tickets[c])
           refuse == /\ Finish(t, Event(op, c, member, Null, "refused", {}))
                     /\ UNCHANGED <<clock, tickets, tried>>
       IN  CASE op = "info" ->
                  IF ~manage THEN refuse
                  ELSE /\ Finish(t, Event(op, c, member, Null, "info", {}))
                       /\ UNCHANGED <<clock, tickets, tried>>
             [] op = "close" ->
                  IF ~manage THEN refuse
                  ELSE closeTicketChannel(t, TheGuild, c, by, op)
             [] op = "transcript" ->
                  IF variant = "index" /\ ~staff THEN refuse
                  ELSE IF ~manage THEN refuse
                  ELSE /\ tasks' = [tasks EXCEPT ![t].op = op, ![t].pc = "tr_build"]
                       /\ ev' = Event(op, c, member, Null, "permitted", {})
                       /\ UNCHANGED <<clock, tickets, tried>>
             [] OTHER ->
                  IF ~staff THEN refuse
                  ELSE /\ StaffOp(t, op, c, by)
                       /\ UNCHANGED <<clock, tried>>
  /\ UNCHANGED <<variant, guildSettings, chanState, overwrites, notices, timers,
                 deleteCalls, dispatched, allocs>>

\* permissionOverwrites.edit(userId, allow).catch of grantTicketAccess
Granted(ow, c, u, ok) == IF ok /\ Live(c) THEN [ow EXCEPT ![c] = @ \cup {u}] ELSE ow

\* permissionOverwrites.delete(userId).catch of revokeTicketAccess
Revoked(ow, c, u, ok) == IF ok /\ Live(c) THEN [ow EXCEPT ![c] = @ \ {u}] ELSE ow

\* add that records the user only when the overwrite was written
AddGrant_OnlyWhenGranted(t) ==
  LET c == tasks[t].ch  u == tasks[t].target IN
  /\ tasks[t].pc = "add_grant"
  /\ \E ok \in BOOLEAN :
       /\ overwrites' = Granted(overwrites, c, u, ok)
       /\ tickets' = IF ok THEN [tickets EXCEPT ![c].addedUserIds = @ \cup {u}]
                          ELSE tickets
  /\ AfterSets(t, Event("add", c, Null, u, "added", {}))
  /\ UNCHANGED <<variant, clock, guildSettings, chanState, notices, tried, timers,
                 deleteCalls, dispatched, allocs>>

\* add: grantTicketAccess resolved, then addedUserIds.add
AddGrant(t) ==
  LET c == tasks[t].ch  u == tasks[t].target IN
  /\ tasks[t].pc = "add_grant"
  /\ \E ok \in BOOLEAN : overwrites' = Granted(overwrites, c, u, ok)
  /\ tickets' = [tickets EXCEPT ![c].addedUserIds = @ \cup {u}]
  /\ AfterSets(t, Event("add", c, Null, u, "added", {}))
  /\ UNCHANGED <<variant, clock, guildSettings, chanState, notices, tried, timers,
                 deleteCalls, dispatched, allocs>>

\* remove: revokeTicketAccess resolved, then both sets drop the user
RemoveRevoke(t) ==
  LET c == tasks[t].ch  u == tasks[t].target IN
  /\ tasks[t].pc = "rm_revoke"
  /\ \E ok \in BOOLEAN : overwrites' = Revoked(overwrites, c, u, ok)
  /\ tickets' = [tickets EXCEPT ![c].addedUserIds = @ \ {u},
                                ![c].assignedStaffIds = @ \ {u}]
  /\ AfterSets(t, Event("remove", c, Null, u, "removed", {}))
  /\ UNCHANGED <<variant, clock, guildSettings, chanState, notices, tried, timers,
                 deleteCalls, dispatched, allocs>>

\* assign of index.js: members.fetch(user.id).catch resolved
AssignFetch(t) ==
  LET c == tasks[t].ch  u == tasks[t].target IN
  /\ tasks[t].pc = "as_fetch"
  /\ \E found \in BOOLEAN :
       LET m == IF found THEN u ELSE Null IN
       IF m = Null
       THEN /\ Finish(t, Event("assign", c, Null, u, "member_not_found", {}))
            /\ UNCHANGED tickets
       ELSE IF ~isTicketStaffMember(guildSettings, TheGuild, m)
       THEN /\ Finish(t, Event("assign", c, Null, u, "not_staff", {}))
            /\ UNCHANGED tickets
       ELSE /\ tickets' = [tickets EXCEPT ![c].assignedStaffIds = @ \cup {u}]
            /\ Goto(t, "grant", Event("assign", c, Null, u, "assigned", {}))
  /\ UNCHANGED <<variant, clock, guildSettings, chanState, overwrites, notices, tried,
                 timers, deleteCalls, dispatched, allocs>>

\* claim, assign: grantTicketAccess resolved
Grant(t) ==
  LET c == tasks[t].ch  u == tasks[t].target IN
  /\ tasks[t].pc = "grant"
  /\ \E ok \in BOOLEAN : overwrites' = Granted(overwrites, c, u, ok)
  /\ tasks' = [tasks EXCEPT ![t].pc = "t_send", ![t].target = Null]
  /\ ev' = Quiet
  /\ UNCHANGED <<variant, clock, guildSettings, tickets, chanState, notices, tried,
                 timers, deleteCalls, dispatched, allocs>>

\* unassign: revokeTicketAccess resolved
Revoke(t) ==
  LET c == tasks[t].ch  u == tasks[t].target IN
  /\ tasks[t].pc = "revoke"
  /\ \E ok \in BOOLEAN : overwrites' = Revoked(overwrites, c, u, ok)
  /\ tasks' = [tasks EXCEPT ![t].pc = "t_send", ![t].target = Null]
  /\ ev' = Quiet
  /\ UNCHANGED <<variant, clock, guildSettings, tickets, chanState, notices, tried,
                 timers, deleteCalls, dispatched, allocs>>

\* channel.send(embed).catch resolved
TicketSend(t) ==
  LET c == tasks[t].ch  op == tasks[t].op IN
  /\ tasks[t].pc = "t_send"
  /\ \E ok \in BOOLEAN :
       LET posts == IF ok /\ Live(c) THEN {"announce"} ELSE {} IN
       IF variant = "p001" /\ op = "claim"
       THEN GotoLog(t, "t_log", Posted(posts))
       ELSE Finish(t, Event(op, c, Null, Null, "done", posts))
  /\ UNCHANGED <<variant, clock, guildSettings, tickets, chanState, overwrites,
                 notices, tried, timers, deleteCalls, dispatched, allocs>>

\* sendLog resolved (part_001)
TicketLog(t) ==
  /\ tasks[t].pc = "t_log"
  /\ \E posts \in LogPosts(tasks[t].log) :
       Finish(t, Event(tasks[t].op, tasks[t].ch, Null, Null, "done", posts))
  /\ UNCHANGED <<variant, clock, guildSettings, tickets, chanState, overwrites,
                 notices, tried, timers, deleteCalls, dispatched, allocs>>

\* transcript: buildTicketTranscript resolved, the file is attached
TranscriptBuilt(t) ==
  /\ tasks[t].pc = "tr_build"
  /\ Finish(t, Event("transcript", tasks[t].ch, Null, Null, "exported", {}))
  /\ UNCHANGED <<variant, clock, guildSettings, tickets, chanState, overwrites,
                 notices, tried, timers, deleteCalls, dispatched, allocs>>

TicketStep(t) ==
  \/ TicketGate(t)
  \/ AddGrant(t)
  \/ RemoveRevoke(t)
  \/ AssignFetch(t)
  \/ Grant(t)
  \/ Revoke(t)
  \/ TicketSend(t)
  \/ TicketLog(t)
  \/ TranscriptBuilt(t)
  \/ CloseNotice(t)
  \/ CloseLog(t)

\* ---------------------------------------------------------------- strings
\* A string is kept as the sequence of its runs: [c |-> character, n |-> how
\* often it is repeated], with n >= 1 and neighbouring runs of different
\* characters.  "SP" is a blank and "LF" a line feed; a run whose c is a whole
\* text, as in Untitled, stands for that literal, n being its length.
TitleMax == 100
TextMax == 900

Run(c, n) == [c |-> c, n |-> n]

EmptyStr == <<>>

RECURSIVE StrLen(_)
\* s.length
StrLen(s) == IF s = <<>> THEN 0 ELSE Head(s).n + StrLen(Tail(s))

RECURSIVE Slice(_, _)
\* s.slice(0, k)
Slice(s, k) ==
  IF s = <<>> \/ k <= 0 THEN <<>>
  ELSE IF Head(s).n >= k THEN <<Run(Head(s).c, k)>>
  ELSE <<Head(s)>> \o Slice(Tail(s), k - Head(s).n)

\* String(s || "").trim()
Trim(s) ==
  LET IsSpace(c) == c \in {"SP", "LF"}
      RECURSIVE TrimStart(_)
      TrimStart(x) == IF x # <<>> /\ IsSpace(Head(x).c) THEN TrimStart(Tail(x)) ELSE x
      RECURSIVE TrimEnd(_)
      TrimEnd(x) ==
        IF x # <<>> /\ IsSpace(x[Len(x)].c) THEN TrimEnd(SubSeq(x, 1, Len(x) - 1)) ELSE x
  IN  TrimEnd(TrimStart(s))

RECURSIVE FirstLine(_)
\* s.split("\n")[0]
FirstLine(s) ==
  IF s = <<>> \/ Head(s).c = "LF" THEN <<>> ELSE <<Head(s)>> \o FirstLine(Tail(s))

\* a + b
Concat(a, b) ==
  IF a = <<>> THEN b
  ELSE IF b = <<>> THEN a
  ELSE IF a[Len(a)].c = Head(b).c
  THEN SubSeq(a, 1, Len(a) - 1) \o <<Run(Head(b).c, a[Len(a)].n + Head(b).n)>> \o Tail(b)
  ELSE a \o b

\* clampText(str, max)
clampText(s, max) ==
  IF StrLen(s) > max THEN Concat(Slice(s, max - 1), <<Run("...", 1)>>) ELSE s

\* ------------------------------------------------------------ bug tracker
\* the bug tracker of src/index.js
BUG_STATUSES == {"OPEN", "IN_PROGRESS", "WAITING", "CANT_FIX", "CANT_REPRODUCE", "RESOLVED"}

\* what a status option or the custom id of a status modal can carry
StatusInputs == {"IN_PROGRESS", "CANT_FIX", "RESOLVED", "BOGUS"}
BugIdInputs == 0..MaxBugOps
\* the users who report bugs
Reporters == {"usr", "stf"}
\* what a message in the input channel, or the report modal, carries
SomeMessage == [content |-> <<Run("a", 2), Run("LF", 1), Run("b", 3)>>, attachments |-> <<>>]
\* message ids are unique: the n-th event that reaches the bot has id MessageId(n)
MessageId(n) == 10 + n
Undefined == "undefined"
Garbage == "garbage"

\* getBug(...) || null: NoBug stands for null
NoBug == [id |-> 0, reporterId |-> Null, title |-> EmptyStr, description |-> EmptyStr,
          status |-> "none", updatedAtMs |-> 0, sourceChannelId |-> Null,
          sourceMessageId |-> NoMessage, assignedToId |-> Null, lastNote |-> EmptyStr,
          comments |-> <<>>]

\* the literals createBug and bugFromMessage fall back to
Untitled == <<Run("Untitled", 8)>>
NoDescription == <<Run("(no description)", 16)>>
BugReport == <<Run("Bug report", 10)>>
NotAvailable == <<Run("(Message content not available.)", 32)>>

\* new Map(): no key
EmptyMap == [k \in {} |-> NoBug]

\* map.set(k, v)
MapSet(m, k, v) == [j \in DOMAIN m \cup {k} |-> IF j = k THEN v ELSE m[j]]

\* createBug that stores the bug under the current counter
createBug_NoIncrement(bs, g, reporterId, title, description, sourceChannelId, sourceMessageId, now) ==
  LET id == IF bs[g].counter = 0 THEN 1 ELSE bs[g].counter
      item == [NoBug EXCEPT !.id = id, !.reporterId = reporterId, !.status = "OPEN",
                            !.updatedAtMs = now]
  IN  [bs |-> [bs EXCEPT ![g] = [counter |-> id, items |-> MapSet(@.items, id, item)]],
       bug |-> item]

\* createBug: the store after the call and the bug it returns
createBug(bs, g, reporterId, title, description, sourceChannelId, sourceMessageId, now) ==
  LET id == bs[g].counter + 1
      item == [id |-> id,
               reporterId |-> reporterId,
               title |-> IF Trim(title) # EmptyStr THEN Trim(title) ELSE Untitled,
               description |-> IF Trim(description) # EmptyStr THEN Trim(description)
                               ELSE NoDescription,
               status |-> "OPEN",
               updatedAtMs |-> now,
               sourceChannelId |-> sourceChannelId,
               sourceMessageId |-> sourceMessageId,
               assignedToId |-> Null,
               lastNote |-> EmptyStr,
               comments |-> <<>>]
  IN  [bs |-> [bs EXCEPT ![g] = [counter |-> id, items |-> MapSet(@.items, id, item)]],
       bug |-> item]

getBug(bs, g, id) == IF id \in DOMAIN bs[g].items THEN bs[g].items[id] ELSE NoBug

\* the store with bug id of community g replaced by b
Stored(bs, g, id, b) == [bs |-> [bs EXCEPT ![g].items[id] = b], bug |-> b]

\* a call that returns null
ReturnsNull(bs) == [bs |-> bs, bug |-> NoBug]

\* setBugStatus that creates the bug it does not find
setBugStatus_Upsert(bs, g, id, status, assignedToId, note, now) ==
  LET b == [getBug(bs, g, id) EXCEPT !.id = id, !.status = status, !.updatedAtMs = now]
  IN  [bs |-> [bs EXCEPT ![g].items = MapSet(@, id, b)], bug |-> b]

\* setBugStatus that takes a missing assignee for "nobody"
setBugStatus_ClearsAssignee(bs, g, id, status, assignedToId, note, now) ==
  IF getBug(bs, g, id) = NoBug THEN ReturnsNull(bs)
  ELSE Stored(bs, g, id,
         [getBug(bs, g, id) EXCEPT
            !.status = status,
            !.updatedAtMs = now,
            !.assignedToId = IF assignedToId # Undefined THEN assignedToId ELSE Null,
            !.lastNote = IF note # EmptyStr THEN Slice(note, TextMax) ELSE @])

\* setBugStatus: the store after the call and what it returns; part_003 has no
\* note parameter, its callers pass EmptyStr here
setBugStatus(bs, g, id, status, assignedToId, note, now) ==
  IF getBug(bs, g, id) = NoBug THEN ReturnsNull(bs)
  ELSE Stored(bs, g, id,
         [getBug(bs, g, id) EXCEPT
            !.status = status,
            !.updatedAtMs = now,
            !.assignedToId = IF assignedToId # Undefined THEN assignedToId ELSE @,
            !.lastNote = IF note # EmptyStr THEN Slice(note, TextMax) ELSE @])

\* addBugComment: a text that is blank once trimmed returns null as well
addBugComment(bs, g, id, byId, text, now) ==
  IF getBug(bs, g, id) = NoBug THEN ReturnsNull(bs)
  ELSE IF Trim(text) = EmptyStr THEN ReturnsNull(bs)
  ELSE Stored(bs, g, id,
         [getBug(bs, g, id) EXCEPT
            !.comments = Append(@, [byId |-> byId, text |-> Slice(Trim(text), TextMax),
                                    atMs |-> now]),
            !.updatedAtMs = now])

\* reopenBug that also drops the assignee
reopenBug_ClearsAssignee(bs, g, id, note, now) ==
  IF getBug(bs, g, id) = NoBug THEN ReturnsNull(bs)
  ELSE Stored(bs, g, id,
         [getBug(bs, g, id) EXCEPT !.status = "OPEN", !.updatedAtMs = now,
                                   !.assignedToId = Null])

reopenBug(bs, g, id, note, now) ==
  IF getBug(bs, g, id) = NoBug THEN ReturnsNull(bs)
  ELSE Stored(bs, g, id,
         [getBug(bs, g, id) EXCEPT
            !.status = "OPEN",
            !.updatedAtMs = now,
            !.lastNote = IF note # EmptyStr THEN Slice(note, TextMax) ELSE @])

\* bugFromMessage: message.content is empty when the content is not delivered;
\* attachments are given by the lengths of their urls
RECURSIVE AttachmentLines(_)
AttachmentLines(urls) ==
  IF urls = <<>> THEN EmptyStr
  ELSE Concat(<<Run("url", 2 + Head(urls))>>,
              IF Tail(urls) = <<>> THEN EmptyStr
              ELSE Concat(<<Run("LF", 1)>>, AttachmentLines(Tail(urls))))

bugFromMessage(message) ==
  LET content == Trim(message.content)
      attachments == SubSeq(message.attachments, 1,
                            IF Len(message.attachments) < 5 THEN Len(message.attachments) ELSE 5)
      title == IF content # EmptyStr THEN Slice(FirstLine(content), TitleMax) ELSE BugReport
      desc == IF content # EmptyStr THEN Slice(content, TextMax) ELSE NotAvailable
      extra == IF attachments # <<>>
               THEN Concat(<<Run("LF", 2), Run("Attachments:", 12), Run("LF", 1)>>,
                           AttachmentLines(attachments))
               ELSE EmptyStr
  IN  [title |-> title, description |-> Concat(desc, extra)]

\* the bugs shown on the board, and the length a title is cut to on a card
BoardMax == 20
CardTitleMax == 60

\* buildBugBoardEmbed that sorts the bugs by ascending id
buildBugBoardEmbed_Ascending(bs, g) ==
  LET items == bs[g].items
      RECURSIVE Sorted(_)
      Sorted(ids) == IF ids = {} THEN <<>>
                     ELSE LET top == CHOOSE i \in ids : \A j \in ids : j >= i
                          IN  <<top>> \o Sorted(ids \ {top})
      all == Sorted(DOMAIN items)
      show == SubSeq(all, 1, IF Len(all) < BoardMax THEN Len(all) ELSE BoardMax)
      buildBugCardLine(bug) ==
        [id |-> bug.id, status |-> bug.status,
         title |-> clampText(bug.title, CardTitleMax),
         assigned |-> bug.assignedToId,
         link |-> IF bug.sourceChannelId # Null /\ bug.sourceMessageId # NoMessage
                  THEN <<bug.sourceChannelId, bug.sourceMessageId>> ELSE <<>>]
  IN  [open     |-> Cardinality({i \in DOMAIN items : items[i].status # "RESOLVED"}),
       resolved |-> Cardinality({i \in DOMAIN items : items[i].status = "RESOLVED"}),
       total    |-> Len(all),
       cards    |-> [n \in DOMAIN show |-> buildBugCardLine(items[show[n]])]]

\* buildBugBoardEmbed: the counts line and the cards (buildBugCardLine) of the
\* first BoardMax bugs of the store sorted by descending id; the timestamp of
\* the embed is not part of the description and is left out
buildBugBoardEmbed(bs, g) ==
  LET items == bs[g].items
      RECURSIVE Sorted(_)
      Sorted(ids) == IF ids = {} THEN <<>>
                     ELSE LET top == CHOOSE i \in ids : \A j \in ids : j <= i
                          IN  <<top>> \o Sorted(ids \ {top})
      all == Sorted(DOMAIN items)
      show == SubSeq(all, 1, IF Len(all) < BoardMax THEN Len(all) ELSE BoardMax)
      buildBugCardLine(bug) ==
        [id |-> bug.id, status |-> bug.status,
         title |-> clampText(bug.title, CardTitleMax),
         assigned |-> bug.assignedToId,
         link |-> IF bug.sourceChannelId # Null /\ bug.sourceMessageId # NoMessage
                  THEN <<bug.sourceChannelId, bug.sourceMessageId>> ELSE <<>>]
  IN  [open     |-> Cardinality({i \in DOMAIN items : items[i].status # "RESOLVED"}),
       resolved |-> Cardinality({i \in DOMAIN items : items[i].status = "RESOLVED"}),
       total    |-> Len(all),
       cards    |-> [n \in DOMAIN show |-> buildBugCardLine(items[show[n]])]]

NoEmbed == [open |-> 0, resolved |-> 0, total |-> 0, cards |-> <<>>]

\* a handler's locals: status and note are those of a status handler; `at` is
\* the number of requests queued before its msg.edit on the route of msg
BugIdle == [op |-> "idle", pc |-> "idle", id |-> 0, sCh |-> Null, sMsg |-> NoMessage,
            msg |-> NoMessage, embed |-> NoEmbed, at |-> 0, tag |-> FALSE, log |-> FALSE,
            status |-> Null, note |-> EmptyStr]

BugEvent(op, id, by, result, posts) ==
  [Quiet EXCEPT !.op = op, !.id = id, !.by = by, !.result = result, !.posts = posts]

FreeBugSlot(t) ==
  /\ bugTasks[t].op = "idle"
  /\ \A u \in Slots : u < t => bugTasks[u].op # "idle"
  /\ bugOps < MaxBugOps

\* the locals a handler keeps across its awaits
Locals(op, id, status, note) ==
  [BugIdle EXCEPT !.op = op, !.id = id, !.status = status, !.note = note]

Keep(k) == Locals(k.op, k.id, k.status, k.note)

\* announceBugUpdate up to its first await: s = getSettings, the target channel
AnnounceTask(k, gs) ==
  LET s == getSettings(gs, TheGuild) IN
  IF /\ s.bug_updates_channel_id = Null
     /\ s.bug_board_channel_id = Null
     /\ s.bug_input_channel_id = Null
  THEN BugIdle
  ELSE [Keep(k) EXCEPT !.pc = "a_chan"]

\* part_003, announceBugStatus up to its first await: the updates channel, else
\* the reports channel, which bug_input_channel_id stands for
AnnounceStatusTask(k, gs) ==
  LET s == getSettings(gs, TheGuild) IN
  IF s.bug_updates_channel_id = Null /\ s.bug_input_channel_id = Null
  THEN BugIdle
  ELSE [Keep(k) EXCEPT !.pc = "a_chan"]

\* what a handler does once refreshBugBoard returned, up to its next await
AfterRefreshTask(k, gs) ==
  IF k.op \in {"status", "comment", "reopen"} THEN AnnounceTask(k, gs)
  ELSE IF k.op = "message"
  THEN [Keep(k) EXCEPT !.pc = "b_log",
                       !.log = getSettings(gs, TheGuild).log_channel_id # Null]
  ELSE BugIdle

\* refreshBugBoard -> ensureBugBoardMessage up to its first await: s = getSettings
RefreshTask(k, gs) ==
  LET s == getSettings(gs, TheGuild) IN
  IF s.bug_board_channel_id = Null THEN AfterRefreshTask(k, gs)
  ELSE [Keep(k) EXCEPT !.pc = "r_chan", !.sCh = s.bug_board_channel_id,
                       !.sMsg = s.bug_board_message_id]

\* /setbugchannels: setSettings, then `await refreshBugBoard`
SetBugChannels(t) ==
  /\ FreeBugSlot(t)
  /\ bugOps' = bugOps + 1
  /\ \E updates \in {Null, UpdatesChannel} :
       guildSettings' = setSettings(guildSettings, TheGuild,
                          [bug_input_channel_id |-> InputChannel,
                           bug_board_channel_id |-> BoardChannel,
                           bug_updates_channel_id |-> updates,
                           bug_board_message_id |-> NoMessage])
  /\ bugTasks' = [bugTasks EXCEPT ![t] =
                    RefreshTask(Locals("setbugchannels", 0, Null, EmptyStr), guildSettings')]
  /\ ev' = [BugEvent("setbugchannels", 0, Null, "configured", {}) EXCEPT !.refresh = TRUE]
  /\ UNCHANGED <<variant, clock, bugStore, board, boardAt>>

\* messageCreate that also takes the messages of bots
IsBugInput_BotsToo(s, author, ch) ==
  /\ s.bug_input_channel_id # Null
  /\ ch = s.bug_input_channel_id

\* messageCreate: the three guards in front of bugFromMessage
IsBugInput(s, author, ch) ==
  /\ ~IsBot(author)
  /\ s.bug_input_channel_id # Null
  /\ ch = s.bug_input_channel_id

\* messageCreate: a message arrives; createBug, then `await message.reply`
MessageCreate(t) ==
  /\ FreeBugSlot(t)
  /\ bugOps' = bugOps + 1
  /\ \E author \in Reporters \cup {BotUser}, ch \in {InputChannel, BoardChannel} :
       LET s == getSettings(guildSettings, TheGuild)
           mid == MessageId(bugOps')
           e(id, result) == [BugEvent("message", id, author, result, {})
                               EXCEPT !.inCh = ch, !.msg = mid]
       IN
       IF ~IsBugInput(s, author, ch)
       THEN /\ ev' = e(0, "ignored")
            /\ UNCHANGED <<clock, bugStore, bugTasks>>
       ELSE \E now \in NowMs :
            LET parsed == bugFromMessage(SomeMessage)
                r == createBug(bugStore, TheGuild, author, parsed.title,
                               parsed.description, ch, mid, now)
            IN  /\ clock' = now
                /\ bugStore' = r.bs
                /\ bugTasks' = [bugTasks EXCEPT ![t] =
                     [Locals("message", r.bug.id, Null, EmptyStr) EXCEPT !.pc = "m_reply"]]
                /\ ev' = e(r.bug.id, "saved")
  /\ UNCHANGED <<variant, guildSettings, board, boardAt>>

\* message.reply(ack).catch resolved; refreshBugBoard is called
MessageReply(t) ==
  /\ bugTasks[t].pc = "m_reply"
  /\ bugTasks' = [bugTasks EXCEPT ![t] = RefreshTask(bugTasks[t], guildSettings)]
  /\ ev' = [BugEvent("message", bugTasks[t].id, Null, "replied", {}) EXCEPT !.refresh = TRUE]
  /\ UNCHANGED <<variant, clock, guildSettings, bugStore, board, boardAt, bugOps>>

\* the bug report modal is submitted: up to `await channels.fetch(input)`
ModalReport(t) ==
  /\ FreeBugSlot(t)
  /\ bugOps' = bugOps + 1
  /\ IF getSettings(guildSettings, TheGuild).bug_input_channel_id = Null
     THEN /\ ev' = BugEvent("report", 0, Null, "not_configured", {})
          /\ UNCHANGED bugTasks
     ELSE /\ bugTasks' = [bugTasks EXCEPT ![t] =
                            [Locals("report", 0, Null, EmptyStr) EXCEPT !.pc = "p_chan"]]
          /\ ev' = Quiet
  /\ UNCHANGED <<variant, clock, guildSettings, bugStore, board, boardAt>>

\* channels.fetch(input).catch resolved; the report is posted
ReportChannel(t) ==
  /\ bugTasks[t].pc = "p_chan"
  /\ \E ok \in BOOLEAN :
       IF ok
       THEN /\ bugTasks' = [bugTasks EXCEPT ![t].pc = "p_send"]
            /\ ev' = Quiet
       ELSE /\ bugTasks' = [bugTasks EXCEPT ![t] = BugIdle]
            /\ ev' = BugEvent("report", 0, Null, "invalid_channel", {})
  /\ UNCHANGED <<variant, clock, guildSettings, bugStore, board, boardAt, bugOps>>

\* bugChannel.send(report).catch resolved; createBug, then refreshBugBoard
ReportPosted(t) ==
  /\ bugTasks[t].pc = "p_send"
  /\ \E posted \in BOOLEAN, reporter \in Reporters :
       IF ~posted
       THEN /\ bugTasks' = [bugTasks EXCEPT ![t] = BugIdle]
            /\ ev' = BugEvent("report", 0, Null, "post_failed", {})
            /\ UNCHANGED <<clock, bugStore>>
       ELSE \E now \in NowMs :
            \* the title and description fields of the modal; posted.id is
            \* 20 + n for report number n
            LET r == createBug(bugStore, TheGuild, reporter, <<Run("a", 2)>>, <<Run("b", 3)>>,
                               InputChannel, 20 + bugStore[TheGuild].counter + 1, now)
            IN  /\ clock' = now
                /\ bugStore' = r.bs
                /\ bugTasks' = [bugTasks EXCEPT ![t] =
                     RefreshTask(Locals("report", r.bug.id, Null, EmptyStr), guildSettings)]
                /\ ev' = [BugEvent("report", r.bug.id, reporter, "saved", {"report"})
                            EXCEPT !.refresh = TRUE]
  /\ UNCHANGED <<variant, guildSettings, board, boardAt, bugOps>>

\* the user a status command or modal names: parseUserId refuses garbage
AssignInputs(via) ==
  IF via = "modal" THEN {Undefined, "stf", Garbage} ELSE {Undefined, "stf"}

\* how a bug operation reaches the bot: the slash command, the board button
\* that opens the modal, the modal; part_003 has the command only
ViaInputs == IF variant = "p003" THEN {"cmd"} ELSE {"cmd", "button", "modal"}

\* a status check that lets every value pass
ValidStatus_Any(status) == TRUE

\* BUG_STATUSES.includes(status)
ValidStatus(status) == status \in BUG_STATUSES

\* /bug status, the status button of the board, or the status modal: checks,
\* setBugStatus, then `await refreshBugBoard`; part_003 checks no permission
\* and goes on with `await updateBugMessage`
BugStatus(t) ==
  /\ FreeBugSlot(t)
  /\ bugOps' = bugOps + 1
  /\ \E by \in Users :
       LET stay(result) ==
             /\ ev' = BugEvent("status", 0, by, result, {})
             /\ UNCHANGED <<clock, bugStore, bugTasks>>
       IN  IF variant # "p003" /\ ~HasManageGuild(by) THEN stay("refused")
           ELSE \E status \in StatusInputs :
           IF ~ValidStatus(status) THEN stay("invalid_status")
           ELSE \E via \in ViaInputs, id \in BugIdInputs :
           IF via = "button" THEN stay("modal_shown")
           ELSE IF via = "modal" /\ id <= 0 THEN stay("invalid_id")
           ELSE \E assign \in AssignInputs(via) :
           IF assign = Garbage THEN stay("invalid_assign")
           ELSE \E note \in {EmptyStr, <<Run("a", 3)>>}, now \in NowMs :
           LET r == setBugStatus(bugStore, TheGuild, id, status, assign,
                                 IF variant = "p003" THEN EmptyStr ELSE note, now)
               k == Locals("status", id, status, note)
           IN  IF r.bug = NoBug
               THEN /\ ev' = [BugEvent("status", id, by, "not_found", {}) EXCEPT !.via = via]
                    /\ UNCHANGED <<clock, bugStore, bugTasks>>
               ELSE /\ clock' = now
                    /\ bugStore' = r.bs
                    /\ bugTasks' = [bugTasks EXCEPT ![t] =
                         IF variant = "p003"
                         THEN \* updateBugMessage up to its first await; sourceChannelId
                              \* and sourceMessageId stand for its reportChannelId
                              \* and reportMessageId
                              IF r.bug.sourceChannelId = Null
                                 \/ r.bug.sourceMessageId = NoMessage
                              THEN AnnounceStatusTask(k, guildSettings)
                              ELSE [Keep(k) EXCEPT !.pc = "u_chan"]
                         ELSE RefreshTask(k, guildSettings)]
                    /\ ev' = [BugEvent("status", id, by, "updated", {})
                                EXCEPT !.via = via, !.refresh = (variant # "p003")]
  /\ UNCHANGED <<variant, guildSettings, board, boardAt>>

\* /bug comment, the comment button, or the comment modal
BugComment(t) ==
  /\ variant # "p003"
  /\ FreeBugSlot(t)
  /\ bugOps' = bugOps + 1
  /\ \E by \in Users :
       LET stay(result) ==
             /\ ev' = BugEvent("comment", 0, by, result, {})
             /\ UNCHANGED <<clock, bugStore, bugTasks>>
       IN  IF ~HasManageGuild(by) THEN stay("refused")
           ELSE \E via \in ViaInputs, id \in BugIdInputs :
           IF via = "button" THEN stay("modal_shown")
           ELSE IF via = "modal" /\ id <= 0 THEN stay("invalid_id")
           ELSE \E text \in {<<Run("SP", 2)>>, <<Run("b", 2)>>}, now \in NowMs :
           LET r == addBugComment(bugStore, TheGuild, id, by, text, now)
           IN  IF r.bug = NoBug
               THEN /\ ev' = [BugEvent("comment", id, by, "not_found", {}) EXCEPT !.via = via]
                    /\ UNCHANGED <<clock, bugStore, bugTasks>>
               ELSE /\ clock' = now
                    /\ bugStore' = r.bs
                    /\ bugTasks' = [bugTasks EXCEPT ![t] =
                         RefreshTask(Locals("comment", id, Null, EmptyStr), guildSettings)]
                    /\ ev' = [BugEvent("comment", id, by, "updated", {})
                                EXCEPT !.via = via, !.refresh = TRUE]
  /\ UNCHANGED <<variant, guildSettings, board, boardAt>>

\* /bug reopen, the reopen button, or the reopen modal
BugReopen(t) ==
  /\ variant # "p003"
  /\ FreeBugSlot(t)
  /\ bugOps' = bugOps + 1
  /\ \E by \in Users :
       LET stay(result) ==
             /\ ev' = BugEvent("reopen", 0, by, result, {})
             /\ UNCHANGED <<clock, bugStore, bugTasks>>
       IN  IF ~HasManageGuild(by) THEN stay("refused")
           ELSE \E via \in ViaInputs, id \in BugIdInputs :
           IF via = "button" THEN stay("modal_shown")
           ELSE IF via = "modal" /\ id <= 0 THEN stay("invalid_id")
           ELSE \E note \in {EmptyStr, <<Run("a", 3)>>}, now \in NowMs :
           LET r == reopenBug(bugStore, TheGuild, id, note, now)
           IN  IF r.bug = NoBug
               THEN /\ ev' = [BugEvent("reopen", id, by, "not_found", {}) EXCEPT !.via = via]
                    /\ UNCHANGED <<clock, bugStore, bugTasks>>
               ELSE /\ clock' = now
                    /\ bugStore' = r.bs
                    /\ bugTasks' = [bugTasks EXCEPT ![t] =
                         RefreshTask(Locals("reopen", id, Null, EmptyStr), guildSettings)]
                    /\ ev' = [BugEvent("reopen", id, by, "updated", {})
                                EXCEPT !.via = via, !.refresh = TRUE]
  /\ UNCHANGED <<variant, guildSettings, board, boardAt>>

\* /bug board, or the refresh button of the board: `await refreshBugBoard`
BugBoard(t) ==
  /\ variant # "p003"
  /\ FreeBugSlot(t)
  /\ bugOps' = bugOps + 1
  /\ \E by \in Users :
       IF ~HasManageGuild(by)
       THEN /\ ev' = BugEvent("board", 0, by, "refused", {})
            /\ UNCHANGED bugTasks
       ELSE /\ bugTasks' = [bugTasks EXCEPT ![t] =
                 RefreshTask(Locals("board", 0, Null, EmptyStr), guildSettings)]
            /\ ev' = [BugEvent("board", 0, by, "refreshing", {}) EXCEPT !.refresh = TRUE]
  /\ UNCHANGED <<variant, clock, guildSettings, bugStore, board, boardAt>>

\* a handler whose refreshBugBoard returned goes on
RefreshDone(t) ==
  bugTasks' = [bugTasks EXCEPT ![t] = AfterRefreshTask(bugTasks[t], guildSettings)]

\* refreshBugBoard that edits with the embed ensureBugBoardMessage had at hand
EditTask_EmbedOfEnsure(k, msg) == [k EXCEPT !.pc = "r_edit", !.msg = msg]

\* refreshBugBoard once ensureBugBoardMessage returned msg: the embed is built
\* and msg.edit is called; the requests that edit one message are sent one
\* after the other, in the order of the calls
EditTask(k, msg) ==
  [k EXCEPT !.pc = "r_edit", !.msg = msg,
            !.embed = buildBugBoardEmbed(bugStore, TheGuild),
            !.at = Cardinality({u \in Slots : /\ bugTasks[u].pc = "r_edit"
                                               /\ bugTasks[u].msg = msg})]

\* ensureBugBoardMessage: channels.fetch(board).catch resolved; the stored
\* message is fetched, or a new board message is sent
BoardChannelFetched(t) ==
  /\ bugTasks[t].pc = "r_chan"
  /\ \E ok \in BOOLEAN :
       IF ~ok
       THEN RefreshDone(t)
       ELSE IF bugTasks[t].sMsg # NoMessage
       THEN bugTasks' = [bugTasks EXCEPT ![t].pc = "r_msg"]
       ELSE bugTasks' = [bugTasks EXCEPT ![t].pc = "r_send",
                           ![t].embed = buildBugBoardEmbed(bugStore, TheGuild)]
  /\ ev' = Quiet
  /\ UNCHANGED <<variant, clock, guildSettings, bugStore, board, boardAt, bugOps>>

\* ensureBugBoardMessage: messages.fetch(stored id).catch resolved; a message
\* that was found is edited by refreshBugBoard, otherwise a new one is sent
BoardMessageFetched(t) ==
  /\ bugTasks[t].pc = "r_msg"
  /\ \E found \in BOOLEAN :
       IF found /\ bugTasks[t].sMsg \in DOMAIN board
                /\ boardAt[bugTasks[t].sMsg] = bugTasks[t].sCh
       THEN bugTasks' = [bugTasks EXCEPT ![t] = EditTask(@, bugTasks[t].sMsg)]
       ELSE bugTasks' = [bugTasks EXCEPT ![t].pc = "r_send",
                           ![t].embed = buildBugBoardEmbed(bugStore, TheGuild)]
  /\ ev' = Quiet
  /\ UNCHANGED <<variant, clock, guildSettings, bugStore, board, boardAt, bugOps>>

\* ensureBugBoardMessage: ch.send(board).catch resolved; the id of the new
\* message is stored, then refreshBugBoard edits it
BoardMessageSent(t) ==
  /\ bugTasks[t].pc = "r_send"
  /\ \E ok \in BOOLEAN :
       IF ~ok
       THEN /\ RefreshDone(t)
            /\ ev' = Quiet
            /\ UNCHANGED <<guildSettings, board, boardAt>>
       ELSE /\ board' = Append(board, bugTasks[t].embed)
            /\ boardAt' = Append(boardAt, bugTasks[t].sCh)
            /\ guildSettings' = setSettings(guildSettings, TheGuild,
                                  [bug_board_message_id |-> Len(board')])
            /\ bugTasks' = [bugTasks EXCEPT ![t] = EditTask(@, Len(board'))]
            /\ ev' = BugEvent(bugTasks[t].op, bugTasks[t].id, Null, "board_posted", {"board"})
  /\ UNCHANGED <<variant, clock, bugStore, bugOps>>

\* msg.edit whose requests for one message are answered in any order
BoardMessageEdited_AnyOrder(t) ==
  /\ bugTasks[t].pc = "r_edit"
  /\ board' = [board EXCEPT ![bugTasks[t].msg] = bugTasks[t].embed]
  /\ RefreshDone(t)
  /\ ev' = Quiet
  /\ UNCHANGED <<variant, clock, guildSettings, bugStore, boardAt, bugOps>>

\* refreshBugBoard: msg.edit(board).catch resolved, the request being the
\* first of those queued for the message
BoardMessageEdited(t) ==
  /\ bugTasks[t].pc = "r_edit"
  /\ bugTasks[t].at = 0
  /\ \E ok \in BOOLEAN :
       board' = IF ok THEN [board EXCEPT ![bugTasks[t].msg] = bugTasks[t].embed] ELSE board
  /\ bugTasks' = [u \in Slots |->
       IF u = t THEN AfterRefreshTask(bugTasks[t], guildSettings)
       ELSE IF bugTasks[u].pc = "r_edit" /\ bugTasks[u].msg = bugTasks[t].msg
       THEN [bugTasks[u] EXCEPT !.at = @ - 1]
       ELSE bugTasks[u]]
  /\ ev' = Quiet
  /\ UNCHANGED <<variant, clock, guildSettings, bugStore, boardAt, bugOps>>

\* part_003, updateBugMessage: channels.fetch(reportChannelId).catch resolved
UpdateChannelFetched(t) ==
  /\ bugTasks[t].pc = "u_chan"
  /\ \E ok \in BOOLEAN :
       bugTasks' = [bugTasks EXCEPT ![t] =
                      IF ok THEN [@ EXCEPT !.pc = "u_msg"]
                      ELSE AnnounceStatusTask(@, guildSettings)]
  /\ ev' = Quiet
  /\ UNCHANGED <<variant, clock, guildSettings, bugStore, board, boardAt, bugOps>>

\* part_003, updateBugMessage: messages.fetch(reportMessageId).catch resolved
UpdateMessageFetched(t) ==
  /\ bugTasks[t].pc = "u_msg"
  /\ \E found \in BOOLEAN :
       bugTasks' = [bugTasks EXCEPT ![t] =
                      IF found THEN [@ EXCEPT !.pc = "u_edit"]
                      ELSE AnnounceStatusTask(@, guildSettings)]
  /\ ev' = Quiet
  /\ UNCHANGED <<variant, clock, guildSettings, bugStore, board, boardAt, bugOps>>

\* part_003, updateBugMessage: msg.edit(embed).catch resolved; announceBugStatus
UpdateMessageEdited(t) ==
  /\ bugTasks[t].pc = "u_edit"
  /\ bugTasks' = [bugTasks EXCEPT ![t] = AnnounceStatusTask(@, guildSettings)]
  /\ ev' = Quiet
  /\ UNCHANGED <<variant, clock, guildSettings, bugStore, board, boardAt, bugOps>>

\* an announcement that tags the reporter whatever the status
tagReporter_Always(bug) == TRUE

\* const tagReporter = bug.status === "RESOLVED"
tagReporter(bug) == bug.status = "RESOLVED"

\* announceBugUpdate: channels.fetch(target).catch resolved; the message is
\* built from the bug as it is now and ch.send is called; part_003 shows the
\* note its handler was given, index.js the note stored in the bug
AnnounceChannelFetched(t) ==
  /\ bugTasks[t].pc = "a_chan"
  /\ \E ok \in BOOLEAN :
       LET k == bugTasks[t]
           bug == getBug(bugStore, TheGuild, k.id)
           m == [status  |-> bug.status,
                 note    |-> clampText(IF variant = "p003" THEN k.note ELSE bug.lastNote,
                                       TextMax),
                 mention |-> IF tagReporter(bug) THEN bug.reporterId ELSE Null]
       IN  IF ~ok
           THEN /\ bugTasks' = [bugTasks EXCEPT ![t] = BugIdle]
                /\ ev' = Quiet
           ELSE /\ bugTasks' = [bugTasks EXCEPT ![t].pc = "a_send",
                                                ![t].tag = (m.mention # Null)]
                /\ ev' = [BugEvent(k.op, k.id, Null, "sending", {}) EXCEPT !.announce = m]
  /\ UNCHANGED <<variant, clock, guildSettings, bugStore, board, boardAt, bugOps>>

\* announceBugUpdate: ch.send(update).catch resolved
AnnounceSent(t) ==
  /\ bugTasks[t].pc = "a_send"
  /\ \E ok \in BOOLEAN :
       ev' = BugEvent(bugTasks[t].op, bugTasks[t].id, Null, "announced",
                      IF ~ok THEN {}
                      ELSE IF bugTasks[t].tag THEN {"update", "mention"} ELSE {"update"})
  /\ bugTasks' = [bugTasks EXCEPT ![t] = BugIdle]
  /\ UNCHANGED <<variant, clock, guildSettings, bugStore, board, boardAt, bugOps>>

\* messageCreate: sendLog resolved
MessageLogged(t) ==
  /\ bugTasks[t].pc = "b_log"
  /\ \E posts \in LogPosts(bugTasks[t].log) :
       ev' = BugEvent("message", bugTasks[t].id, Null, "logged", posts)
  /\ bugTasks' = [bugTasks EXCEPT ![t] = BugIdle]
  /\ UNCHANGED <<variant, clock, guildSettings, bugStore, board, boardAt, bugOps>>

\* the continuations of the bug handlers of index.js
BugStep(t) ==
  \/ MessageReply(t)
  \/ ReportChannel(t)
  \/ ReportPosted(t)
  \/ BoardChannelFetched(t)
  \/ BoardMessageFetched(t)
  \/ BoardMessageSent(t)
  \/ BoardMessageEdited(t)
  \/ AnnounceChannelFetched(t)
  \/ AnnounceSent(t)
  \/ MessageLogged(t)

\* the continuations of the handlers that work on stored bugs
BugOpStep(t) ==
  \/ BoardChannelFetched(t)
  \/ BoardMessageFetched(t)
  \/ BoardMessageSent(t)
  \/ BoardMessageEdited(t)
  \/ UpdateChannelFetched(t)
  \/ UpdateMessageFetched(t)
  \/ UpdateMessageEdited(t)
  \/ AnnounceChannelFetched(t)
  \/ AnnounceSent(t)

\* ------------------------------------------------ the store functions alone
\* the texts the store functions are called with: none, blank, short, a text
\* between blanks, and texts around the limit of TextMax characters; the ids
\* they are called with are 1, which exists in InitBugUnit, and 2, which does not
UnitTexts ==
  {EmptyStr, <<Run("SP", 2)>>, <<Run("a", 3)>>, <<Run("SP", 1), Run("b", 2), Run("LF", 1)>>,
   <<Run("a", TextMax)>>, <<Run("a", TextMax + 1)>>}

\* the description of a direct call, of the status the bug had before it (Null
\* without such a bug) and of the id of the bug it returned (0 for null)
Call(fn, id, status, assignedToId, byId, text, r) ==
  [Quiet EXCEPT !.op = "call",
                !.call = [fn |-> fn, id |-> id, status |-> status,
                          assignedToId |-> assignedToId, byId |-> byId, text |-> text,
                          attachments |-> <<>>,
                          was |-> IF getBug(bugStore, TheGuild, id) = NoBug THEN Null
                                  ELSE getBug(bugStore, TheGuild, id).status,
                          ret |-> r.bug.id]]

\* setBugStatus(guild.id, id, status, assignedId, note)
CallSetBugStatus ==
  /\ bugOps < MaxCalls
  /\ bugOps' = bugOps + 1
  /\ \E id \in {1, 2}, status \in BUG_STATUSES, assign \in {Undefined, "stf"},
        note \in UnitTexts, now \in NowMs :
       LET r == setBugStatus(bugStore, TheGuild, id, status, assign, note, now)
       IN  /\ bugStore' = r.bs
           /\ clock' = IF r.bug = NoBug THEN clock ELSE now
           /\ ev' = Call("setBugStatus", id, status, assign, Null, note, r)
  /\ UNCHANGED <<variant, guildSettings, board, boardAt, bugTasks>>

\* addBugComment(guild.id, id, interaction.user.id, text)
CallAddBugComment ==
  /\ bugOps < MaxCalls
  /\ bugOps' = bugOps + 1
  /\ \E id \in {1, 2}, by \in {"adm"}, text \in UnitTexts, now \in NowMs :
       LET r == addBugComment(bugStore, TheGuild, id, by, text, now)
       IN  /\ bugStore' = r.bs
           /\ clock' = IF r.bug = NoBug THEN clock ELSE now
           /\ ev' = Call("addBugComment", id, Null, Null, by, text, r)
  /\ UNCHANGED <<variant, guildSettings, board, boardAt, bugTasks>>

\* reopenBug(guild.id, id, note)
CallReopenBug ==
  /\ bugOps < MaxCalls
  /\ bugOps' = bugOps + 1
  /\ \E id \in {1, 2}, note \in UnitTexts, now \in NowMs :
       LET r == reopenBug(bugStore, TheGuild, id, note, now)
       IN  /\ bugStore' = r.bs
           /\ clock' = IF r.bug = NoBug THEN clock ELSE now
           /\ ev' = Call("reopenBug", id, Null, Null, Null, note, r)
  /\ UNCHANGED <<variant, guildSettings, board, boardAt, bugTasks>>

\* the characters and run lengths of the message contents that are tried
Runs == {Run(c, n) : c \in {"a", "SP", "LF"}, n \in {1, TitleMax, TitleMax + 1, TextMax}}

\* message.content: nothing, or up to three runs
Contents ==
  {EmptyStr}
    \cup {<<r>> : r \in Runs}
    \cup UNION {{<<r1, r2>> : r2 \in {r \in Runs : r.c # r1.c}} : r1 \in Runs}
    \cup {<<r1, r2, r3>> : r1 \in {r \in Runs : r.c = "a"},
                           r2 \in {r \in Runs : r.c = "LF"},
                           r3 \in {r \in Runs : r.c = "a"}}

\* the part of messageCreate between its guards and its first await:
\* bugFromMessage, then createBug; message.attachments is given by the
\* lengths of the urls
Ingest ==
  /\ bugOps < MaxIngest
  /\ bugOps' = bugOps + 1
  /\ \E content \in Contents, attachments \in {<<>>, <<30>>}, now \in NowMs :
       LET parsed == bugFromMessage([content |-> content, attachments |-> attachments])
           r == createBug(bugStore, TheGuild, "usr", parsed.title, parsed.description,
                          InputChannel, MessageId(bugOps'), now)
       IN  /\ bugStore' = r.bs
           /\ clock' = now
           /\ ev' = [Call("bugFromMessage", r.bug.id, Null, Null, "usr", content, r)
                       EXCEPT !.call.attachments = attachments]
  /\ UNCHANGED <<variant, guildSettings, board, boardAt, bugTasks>>

\* ------------------------------------------------------- specifications
\* no bug, no board message, no bug handler
NoBugs ==
  /\ bugStore = [g \in Guilds |-> [counter |-> 0, items |-> EmptyMap]]
  /\ board = <<>>
  /\ boardAt = <<>>
  /\ bugTasks = [t \in Slots |-> BugIdle]
  /\ bugOps = 0

\* the state after start-up
Init ==
  /\ NoBugs
  /\ variant \in Variants
  /\ clock = 1
  /\ guildSettings = [g \in Guilds |-> DefaultSettings]
  /\ tickets = [c \in ChanIds |-> NoTicket]
  /\ chanState = [c \in ChanIds |-> "none"]
  /\ overwrites = [c \in ChanIds |-> {}]
  /\ notices = [c \in ChanIds |-> 0]
  /\ tried = [c \in ChanIds |-> {}]
  /\ timers = [c \in ChanIds |-> 0]
  /\ deleteCalls = [c \in ChanIds |-> 0]
  /\ tasks = [t \in Slots |-> Idle]
  /\ dispatched = 0
  /\ ev = Quiet
  /\ NoLedger
  /\ allocs = [g \in Guilds |-> <<>>]

\* ticket creation next to settings commands, from the state after start-up
NextCreate ==
  /\ \/ SetLog(TheGuild) \/ SetTicketStaffRole(TheGuild) \/ ClearTicketStaffRole(TheGuild)
     \/ \E t \in Slots : DispatchCreate(t)
     \/ \E t \in Slots : CreateStep(t)
  /\ UNCHANGED <<bugVars, ledgerVars>>

SpecCreate == Init /\ [][NextCreate]_vars

\* the state after one createTicketChannel returned: CreateCatCreate stored the
\* category, nextTicketNumber moved the counter to 1, CreateChannel stored the
\* ticket of channel 1
InitOps ==
  /\ NoBugs
  /\ variant \in Variants
  /\ clock = 1
  /\ guildSettings = [g \in Guilds |->
       [DefaultSettings EXCEPT !.ticket_counter = 1, !.ticket_category_id = Category]]
  /\ \E owner \in Users :
       /\ tickets = [c \in ChanIds |->
                       IF c = 1 THEN NewTicket(TheGuild, owner) ELSE NoTicket]
       /\ overwrites = [c \in ChanIds |->
                          IF c = 1 THEN TicketOverwrites(owner) ELSE {}]
  /\ chanState = [c \in ChanIds |-> IF c = 1 THEN "live" ELSE "none"]
  /\ notices = [c \in ChanIds |-> 0]
  /\ tried = [c \in ChanIds |-> {}]
  /\ timers = [c \in ChanIds |-> 0]
  /\ deleteCalls = [c \in ChanIds |-> 0]
  /\ tasks = [t \in Slots |-> Idle]
  /\ dispatched = 0
  /\ ev = Quiet
  /\ NoLedger
  /\ allocs = [g \in Guilds |-> <<1>>]

\* the operations on an existing ticket next to settings commands
NextOps ==
  /\ \/ SetLog(TheGuild) \/ SetTicketStaffRole(TheGuild) \/ ClearTicketStaffRole(TheGuild)
     \/ \E t \in Slots : DispatchTicket(t)
     \/ \E t \in Slots : DispatchClose003(t)
     \/ \E t \in Slots : TicketStep(t)
     \/ \E c \in ChanIds : TimerFire(c)
  /\ UNCHANGED <<bugVars, ledgerVars>>

SpecOps == InitOps /\ [][NextOps]_vars

\* closeTicketChannel called directly, with any guild and any channel
CallClose(t) ==
  /\ FreeSlot(t)
  /\ dispatched' = dispatched + 1
  /\ \E g \in {TheGuild, OtherGuild}, by \in Users,
        c \in {General} \cup {d \in ChanIds : chanState[d] # "none"} :
       closeTicketChannel(t, g, c, by, "call")
  /\ UNCHANGED <<variant, guildSettings, chanState, overwrites, notices, timers,
                 deleteCalls, allocs>>

NextUnit ==
  /\ \/ SetLog(TheGuild)
     \/ \E t \in Slots : CallClose(t)
     \/ \E t \in Slots : CloseNotice(t)
     \/ \E t \in Slots : CloseLog(t)
     \/ \E c \in ChanIds : TimerFire(c)
  /\ UNCHANGED <<bugVars, ledgerVars>>

SpecUnit == InitOps /\ [][NextUnit]_vars

\* the state after start-up, or after /setbugchannels returned: its
\* refreshBugBoard either posted board message 1 or failed to
InitBugs ==
  /\ variant = "index"
  /\ clock = 1
  /\ \/ /\ guildSettings = [g \in Guilds |-> DefaultSettings]
        /\ board = <<>>
        /\ boardAt = <<>>
     \/ \E updates \in {Null, UpdatesChannel}, msg \in {NoMessage, 1} :
          /\ guildSettings = [g \in Guilds |->
               [DefaultSettings EXCEPT !.bug_input_channel_id = InputChannel,
                                       !.bug_board_channel_id = BoardChannel,
                                       !.bug_updates_channel_id = updates,
                                       !.bug_board_message_id = msg]]
          /\ board = IF msg = NoMessage THEN <<>> ELSE <<NoEmbed>>
          /\ boardAt = IF msg = NoMessage THEN <<>> ELSE <<BoardChannel>>
  /\ bugStore = [g \in Guilds |-> [counter |-> 0, items |-> EmptyMap]]
  /\ bugTasks = [t \in Slots |-> BugIdle]
  /\ bugOps = 0
  /\ tickets = [c \in ChanIds |-> NoTicket]
  /\ chanState = [c \in ChanIds |-> "none"]
  /\ overwrites = [c \in ChanIds |-> {}]
  /\ notices = [c \in ChanIds |-> 0]
  /\ tried = [c \in ChanIds |-> {}]
  /\ timers = [c \in ChanIds |-> 0]
  /\ deleteCalls = [c \in ChanIds |-> 0]
  /\ tasks = [t \in Slots |-> Idle]
  /\ dispatched = 0
  /\ ev = Quiet
  /\ NoLedger
  /\ allocs = [g \in Guilds |-> <<>>]

\* the bug handlers next to /setbugchannels
NextBugs ==
  /\ \/ \E t \in Slots : SetBugChannels(t)
     \/ \E t \in Slots : MessageCreate(t)
     \/ \E t \in Slots : ModalReport(t)
     \/ \E t \in Slots : BugStatus(t)
     \/ \E t \in Slots : BugReopen(t)
     \/ \E t \in Slots : BugStep(t)
  /\ UNCHANGED <<ticketVars, ledgerVars>>

SpecBugs == InitBugs /\ [][NextBugs]_vars

\* the store after one message of "usr" in the input channel was ingested (in
\* part_003: after one /bug report was posted)
OneBug ==
  createBug([g \in Guilds |-> [counter |-> 0, items |-> EmptyMap]], TheGuild, "usr",
            bugFromMessage(SomeMessage).title, bugFromMessage(SomeMessage).description,
            InputChannel, MessageId(0), 1).bs

\* the bug channels are configured, one bug is stored and shown on the board,
\* no handler is running
InitBugOps ==
  /\ variant \in {"index", "p003"}
  /\ clock = 1
  /\ \E updates \in {Null, UpdatesChannel} :
       guildSettings = [g \in Guilds |->
          [DefaultSettings EXCEPT !.bug_input_channel_id = InputChannel,
                                  !.bug_board_channel_id = BoardChannel,
                                  !.bug_updates_channel_id = updates,
                                  !.bug_board_message_id = 1]]
  /\ bugStore = OneBug
  /\ board = <<buildBugBoardEmbed(OneBug, TheGuild)>>
  /\ boardAt = <<BoardChannel>>
  /\ bugTasks = [t \in Slots |-> BugIdle]
  /\ bugOps = 0
  /\ tickets = [c \in ChanIds |-> NoTicket]
  /\ chanState = [c \in ChanIds |-> "none"]
  /\ overwrites = [c \in ChanIds |-> {}]
  /\ notices = [c \in ChanIds |-> 0]
  /\ tried = [c \in ChanIds |-> {}]
  /\ timers = [c \in ChanIds |-> 0]
  /\ deleteCalls = [c \in ChanIds |-> 0]
  /\ tasks = [t \in Slots |-> Idle]
  /\ dispatched = 0
  /\ ev = Quiet
  /\ NoLedger
  /\ allocs = [g \in Guilds |-> <<>>]

\* the handlers that work on stored bugs
NextBugOps ==
  /\ \/ \E t \in Slots : BugStatus(t)
     \/ \E t \in Slots : BugComment(t)
     \/ \E t \in Slots : BugReopen(t)
     \/ \E t \in Slots : BugBoard(t)
     \/ \E t \in Slots : BugOpStep(t)
  /\ UNCHANGED <<ticketVars, ledgerVars>>

SpecBugOps == InitBugOps /\ [][NextBugOps]_vars

\* one stored bug in any state the handlers can bring it to, no handler running
InitBugUnit ==
  /\ variant = "index"
  /\ clock = 1
  /\ guildSettings = [g \in Guilds |->
        [DefaultSettings EXCEPT !.bug_input_channel_id = InputChannel]]
  /\ board = <<>>
  /\ boardAt = <<>>
  /\ bugTasks = [t \in Slots |-> BugIdle]
  /\ bugOps = 0
  /\ tickets = [c \in ChanIds |-> NoTicket]
  /\ chanState = [c \in ChanIds |-> "none"]
  /\ overwrites = [c \in ChanIds |-> {}]
  /\ notices = [c \in ChanIds |-> 0]
  /\ tried = [c \in ChanIds |-> {}]
  /\ timers = [c \in ChanIds |-> 0]
  /\ deleteCalls = [c \in ChanIds |-> 0]
  /\ tasks = [t \in Slots |-> Idle]
  /\ dispatched = 0
  /\ ev = Quiet
  /\ NoLedger
  /\ allocs = [g \in Guilds |-> <<>>]
  /\ \E status \in BUG_STATUSES, assignee \in {Null, "stf"}, note \in {EmptyStr, <<Run("n", 4)>>},
        comments \in {<<>>, <<[byId |-> "adm", text |-> <<Run("c", 5)>>, atMs |-> 1]>>} :
       bugStore = [OneBug EXCEPT ![TheGuild].items[1] =
                     [@ EXCEPT !.status = status, !.assignedToId = assignee,
                               !.lastNote = note, !.comments = comments]]

\* the store functions called directly
NextBugUnit ==
  /\ \/ CallSetBugStatus
     \/ CallAddBugComment
     \/ CallReopenBug
  /\ UNCHANGED <<ticketVars, ledgerVars>>

SpecBugUnit == InitBugUnit /\ [][NextBugUnit]_vars

\* messages that pass the guards of messageCreate
NextIngest ==
  /\ Ingest
  /\ UNCHANGED <<ticketVars, ledgerVars>>

\* the input channel is configured, no bug is stored yet
InitIngest ==
  /\ InitBugs
  /\ guildSettings[TheGuild].bug_input_channel_id # Null

SpecIngest == InitIngest /\ [][NextIngest]_vars

\* the event loop runs the continuation of every call that resolved, and
\* fires every timer that is due
SpecUnitLive ==
  /\ SpecUnit
  /\ \A t \in Slots : /\ WF_vars(CloseNotice(t) /\ UNCHANGED <<bugVars, ledgerVars>>)
                       /\ WF_vars(CloseLog(t) /\ UNCHANGED <<bugVars, ledgerVars>>)
  /\ \A c \in ChanIds : WF_vars(TimerFire(c) /\ UNCHANGED <<bugVars, ledgerVars>>)

\* the event loop runs the continuation of every bug handler whose awaited
\* call resolved; every awaited call of these handlers carries a catch
SpecBugsLive ==
  /\ SpecBugs
  /\ \A t \in Slots : WF_vars(BugStep(t) /\ UNCHANGED <<ticketVars, ledgerVars>>)

\* the ticket handlers have not run
TicketsAtRest ==
  /\ tickets = [c \in ChanIds |-> NoTicket]
  /\ chanState = [c \in ChanIds |-> "none"]
  /\ overwrites = [c \in ChanIds |-> {}]
  /\ notices = [c \in ChanIds |-> 0]
  /\ tried = [c \in ChanIds |-> {}]
  /\ timers = [c \in ChanIds |-> 0]
  /\ deleteCalls = [c \in ChanIds |-> 0]
  /\ tasks = [t \in Slots |-> Idle]
  /\ dispatched = 0
  /\ allocs = [g \in Guilds |-> <<>>]

\* ------------------------------------------------------------------ vouches
\* the vouch ledger of src/index.js
MaxLedgerOps == 4

NoVouch == [id |-> 0, voucherId |-> Null, vouchedId |-> Null, message |-> EmptyStr,
            createdAtMs |-> 0]

\* addVouch that numbers a vouch by the length of the list
addVouch_IdFromLength(vs, g, voucherId, vouchedId, message, now) ==
  LET id == Len(vs[g].items) + 1
  IN  [vs |-> [vs EXCEPT ![g] =
                 [counter |-> IF id > @.counter THEN id ELSE @.counter,
                  items |-> Append(@.items,
                              [id |-> id, voucherId |-> voucherId, vouchedId |-> vouchedId,
                               message |-> Slice(message, TextMax),
                               createdAtMs |-> now])]],
       id |-> id]

\* addVouch: the store after the call and the id it returns
addVouch(vs, g, voucherId, vouchedId, message, now) ==
  LET id == vs[g].counter + 1
  IN  [vs |-> [vs EXCEPT ![g] =
                 [counter |-> id,
                  items |-> Append(@.items,
                              [id |-> id, voucherId |-> voucherId, vouchedId |-> vouchedId,
                               message |-> Slice(message, TextMax),
                               createdAtMs |-> now])]],
       id |-> id]

\* store.items.find / findIndex by id: the first vouch with that id, if any
FindVouch(vs, g, vouchId) ==
  LET items == vs[g].items
      hits == {n \in DOMAIN items : items[n].id = vouchId}
  IN  IF hits = {} THEN 0 ELSE CHOOSE n \in hits : \A m \in hits : n <= m

\* removeVouchById: the store after the call and the vouch it returns
removeVouchById(vs, g, vouchId) ==
  LET idx == FindVouch(vs, g, vouchId)
      items == vs[g].items
  IN  IF idx = 0 THEN [vs |-> vs, removed |-> NoVouch]
      ELSE [vs |-> [vs EXCEPT ![g].items =
                      SubSeq(items, 1, idx - 1) \o SubSeq(items, idx + 1, Len(items))],
            removed |-> items[idx]]

\* what a ledger command did: sendLog posts when a log channel is set
LedgerEvent(op, by, target, id, result) ==
  [Quiet EXCEPT !.op = op, !.by = by, !.target = target, !.id = id, !.result = result,
                !.posts = IF result \in {"added", "removed", "paid"}
                             /\ getSettings(guildSettings, TheGuild).log_channel_id # Null
                          THEN {"log", "reply"} ELSE {"reply"}]

\* /vouch that turns away bots only
VouchRefusal_BotsOnly(by, target) == IF IsBot(target) THEN "no_bot" ELSE Null

\* /vouch: the two tests before addVouch
VouchRefusal(by, target) ==
  IF IsBot(target) THEN "no_bot"
  ELSE IF target = by THEN "no_self"
  ELSE Null

\* /vouch user message
Vouch ==
  /\ ledgerOps < MaxLedgerOps
  /\ ledgerOps' = ledgerOps + 1
  /\ \E by \in Users, target \in Targets :
       IF VouchRefusal(by, target) # Null
       THEN /\ ev' = LedgerEvent("vouch", by, target, 0, VouchRefusal(by, target))
            /\ UNCHANGED vouchStore
       ELSE \E message \in {EmptyStr, <<Run("m", TextMax + 1)>>} :
            LET r == addVouch(vouchStore, TheGuild, by, target, message, wall)
            IN  /\ vouchStore' = r.vs
                /\ ev' = LedgerEvent("vouch", by, target, r.id, "added")
  /\ UNCHANGED <<users, wall, xpCall>>

\* /vouchremove id
VouchRemove ==
  /\ ledgerOps < MaxLedgerOps
  /\ ledgerOps' = ledgerOps + 1
  /\ \E by \in Users, id \in 0..(vouchStore[TheGuild].counter + 1) :
       LET idx == FindVouch(vouchStore, TheGuild, id)
           entry == vouchStore[TheGuild].items[idx]
       IN  IF idx = 0
           THEN /\ ev' = LedgerEvent("vouchremove", by, Null, id, "not_found")
                /\ UNCHANGED vouchStore
           ELSE IF ~HasManageGuild(by) /\ entry.voucherId # by
           THEN /\ ev' = LedgerEvent("vouchremove", by, entry.voucherId, id, "refused")
                /\ UNCHANGED vouchStore
           ELSE /\ vouchStore' = removeVouchById(vouchStore, TheGuild, id).vs
                /\ ev' = LedgerEvent("vouchremove", by, entry.voucherId, id, "removed")
  /\ UNCHANGED <<users, wall, xpCall>>

\* the start-up state of src/index.js
InitVouch ==
  /\ variant = "index"
  /\ clock = 1
  /\ guildSettings \in {[g \in Guilds |-> DefaultSettings],
                        [g \in Guilds |-> [DefaultSettings EXCEPT !.log_channel_id = LogChannel]]}
  /\ NoBugs
  /\ TicketsAtRest
  /\ ev = Quiet
  /\ NoLedger

NextVouch ==
  /\ \/ Vouch
     \/ VouchRemove
  /\ UNCHANGED <<variant, clock, guildSettings, ticketVars, bugVars>>

SpecVouch == InitVouch /\ [][NextVouch]_vars

\* ----------------------------------------------------------------- XP, levels
\* the XP helpers of src/unnamed/part_003 (part_002 has the same code)
\* a threshold that grows by 50 a level
xpForNext_Linear(level) == 50 * level + 100

xpForNext(level) == 5 * level * level + 50 * level + 100

\* a level-up test that compares with the threshold of level 0
LevelUpDue_FlatThreshold(u) == u.xp >= xpForNext(0)

\* addXp: the test of the while loop
LevelUpDue(u) == u.xp >= xpForNext(u.level)

\* addXp(guildId, userId, amount) up to the while loop: u.xp += amount
CallAddXp ==
  /\ xpCall.pc = "idle"
  /\ ledgerOps < MaxLedgerOps
  /\ ledgerOps' = ledgerOps + 1
  /\ \E userId \in Users, amount \in {0, 25, 250, 255, 1000} :
       /\ users' = [users EXCEPT ![userId].xp = @ + amount]
       /\ xpCall' = [pc |-> "loop", user |-> userId, amount |-> amount,
                     was |-> users[userId].level, xpWas |-> users[userId].xp,
                     leveledUp |-> FALSE]
       /\ ev' = [LedgerEvent("addXp", userId, Null, amount, "called") EXCEPT !.posts = {}]
  /\ UNCHANGED <<vouchStore, wall>>

\* addXp: one turn of the while loop
XpLoop ==
  /\ xpCall.pc = "loop"
  /\ LevelUpDue(users[xpCall.user])
  /\ users' = [users EXCEPT ![xpCall.user] =
                 [@ EXCEPT !.xp = @ - xpForNext(users[xpCall.user].level),
                           !.level = @ + 1]]
  /\ xpCall' = [xpCall EXCEPT !.leveledUp = TRUE]
  /\ ev' = Quiet
  /\ UNCHANGED <<vouchStore, wall, ledgerOps>>

\* addXp: the loop is left, { xp, level, leveledUp } is returned
XpReturn ==
  /\ xpCall.pc = "loop"
  /\ ~LevelUpDue(users[xpCall.user])
  /\ xpCall' = NoXpCall
  /\ ev' = [LedgerEvent("addXp", xpCall.user, Null, users[xpCall.user].level,
                        IF xpCall.leveledUp THEN "leveledUp" ELSE "returned")
             EXCEPT !.posts = {}, !.call.was = xpCall.was]
  /\ UNCHANGED <<vouchStore, users, wall, ledgerOps>>

\* part_003 at start-up, or with a user who earned XP before: at level 0 to 2,
\* with no XP or one short of the next level
InitXp ==
  /\ variant = "p003"
  /\ clock = 1
  /\ guildSettings = [g \in Guilds |-> DefaultSettings]
  /\ NoBugs
  /\ TicketsAtRest
  /\ ev = Quiet
  /\ vouchStore = [g \in Guilds |-> [counter |-> 0, items |-> <<>>]]
  /\ \E level \in 0..2 : \E xp \in {0, xpForNext(level) - 1} :
       users = [u \in Users |-> IF u = "usr"
                                THEN [NewUser EXCEPT !.level = level, !.xp = xp]
                                ELSE NewUser]
  /\ wall = 1
  /\ xpCall = NoXpCall
  /\ ledgerOps = 0

NextXp ==
  /\ \/ CallAddXp
     \/ XpLoop
     \/ XpReturn
  /\ UNCHANGED <<variant, clock, guildSettings, ticketVars, bugVars>>

SpecXp == InitXp /\ [][NextXp]_vars

\* addXp runs to its return: nothing interrupts the loop
SpecXpLive ==
  /\ SpecXp
  /\ WF_vars(XpLoop /\ UNCHANGED <<variant, clock, guildSettings, ticketVars, bugVars>>)
  /\ WF_vars(XpReturn /\ UNCHANGED <<variant, clock, guildSettings, ticketVars, bugVars>>)

\* -------------------------------------------------------------------- economy
\* the economy helpers of src/unnamed/part_003 (part_002 has the same code)
COOLDOWN == 24 * 60 * 60 * 1000

\* Date.now() at a call: the millisecond of the call before, the next one, or
\* one short of a cooldown later
NowWall == {wall, wall + 1, wall + COOLDOWN - 1}

\* claimDaily that still refuses at exactly one cooldown after the last claim
claimDaily_RefusesAtCooldown(us, userId, now, roll) ==
  LET u == us[userId] IN
  IF u.lastDailyMs # 0 /\ now - u.lastDailyMs <= COOLDOWN
  THEN [us |-> us, ok |-> FALSE, remainingMs |-> COOLDOWN - (now - u.lastDailyMs), reward |-> 0]
  ELSE [us |-> [us EXCEPT ![userId].lastDailyMs = now, ![userId].balance = @ + 250 + roll],
        ok |-> TRUE, remainingMs |-> 0, reward |-> 250 + roll]

\* claimDaily: the users Map after the call and what it returns; roll is
\* Math.floor(Math.random() * 251)
claimDaily(us, userId, now, roll) ==
  LET u == us[userId] IN
  IF u.lastDailyMs # 0 /\ now - u.lastDailyMs < COOLDOWN
  THEN [us |-> us, ok |-> FALSE, remainingMs |-> COOLDOWN - (now - u.lastDailyMs), reward |-> 0]
  ELSE [us |-> [us EXCEPT ![userId].lastDailyMs = now, ![userId].balance = @ + 250 + roll],
        ok |-> TRUE, remainingMs |-> 0, reward |-> 250 + roll]

\* transferBalance without the test of the sender's balance
transferBalance_NoFundsTest(us, fromId, toId, amount) ==
  IF amount <= 0 THEN [us |-> us, threw |-> "amount must be > 0"]
  ELSE [us |-> [[us EXCEPT ![fromId].balance = @ - amount] EXCEPT ![toId].balance = @ + amount],
        threw |-> Null]

\* transferBalance: the users Map after the call and the error it throws
transferBalance(us, fromId, toId, amount) ==
  IF amount <= 0 THEN [us |-> us, threw |-> "amount must be > 0"]
  ELSE IF us[fromId].balance < amount THEN [us |-> us, threw |-> "insufficient funds"]
  ELSE [us |-> [[us EXCEPT ![fromId].balance = @ - amount] EXCEPT ![toId].balance = @ + amount],
        threw |-> Null]

\* /daily: ev.msg is the remainingMs or the reward of the reply
Daily ==
  /\ ledgerOps < MaxLedgerOps
  /\ ledgerOps' = ledgerOps + 1
  /\ \E by \in Users, now \in NowWall, roll \in {0, 250} :
       LET res == claimDaily(users, by, now, roll)
       IN  /\ wall' = now
           /\ users' = res.us
           /\ ev' = [LedgerEvent("daily", by, Null, 0, IF res.ok THEN "claimed" ELSE "wait")
                      EXCEPT !.msg = IF res.ok THEN res.reward ELSE res.remainingMs]
  /\ UNCHANGED <<vouchStore, xpCall>>

\* /pay user amount: ev.id is the amount
Pay ==
  /\ ledgerOps < MaxLedgerOps
  /\ ledgerOps' = ledgerOps + 1
  /\ \E by \in Users, to \in Targets, amount \in {-5, 0, 250, 600} :
       IF IsBot(to) \/ to = by
       THEN /\ ev' = LedgerEvent("pay", by, to, amount, IF IsBot(to) THEN "no_bot" ELSE "no_self")
            /\ UNCHANGED users
       ELSE LET res == transferBalance(users, by, to, amount)
            IN  /\ users' = res.us
                /\ ev' = LedgerEvent("pay", by, to, amount,
                            IF res.threw = Null THEN "paid"
                            ELSE IF res.threw = "insufficient funds" THEN "insufficient"
                            ELSE "thrown")
  /\ UNCHANGED <<vouchStore, wall, xpCall>>

\* part_003 at start-up, a log channel being set
InitEconomy ==
  /\ variant = "p003"
  /\ clock = 1
  /\ guildSettings = [g \in Guilds |-> [DefaultSettings EXCEPT !.log_channel_id = LogChannel]]
  /\ NoBugs
  /\ TicketsAtRest
  /\ ev = Quiet
  /\ NoLedger

NextEconomy ==
  /\ \/ Daily
     \/ Pay
  /\ UNCHANGED <<variant, clock, guildSettings, ticketVars, bugVars>>

SpecEconomy == InitEconomy /\ [][NextEconomy]_vars

\* ------------------------------------------------------------ the board alone
\* the store after n messages were ingested (titles of 58 to 62 characters) and
\* the bugs in `resolved` were set to RESOLVED, those in `waiting` to WAITING
\* with an assignee
BugsStored(n, resolved, waiting) ==
  LET Before(i) == [g \in Guilds |-> [counter |-> i - 1, items |-> EmptyMap]]
      Made(i) == createBug(Before(i), TheGuild, "usr", <<Run("t", 58 + (i % 5))>>,
                           EmptyStr, InputChannel, MessageId(i), 1)
      Item(i) == IF i \in resolved
                 THEN setBugStatus(Made(i).bs, TheGuild, i, "RESOLVED", Undefined,
                                   EmptyStr, 1).bug
                 ELSE IF i \in waiting
                 THEN setBugStatus(Made(i).bs, TheGuild, i, "WAITING", "stf", EmptyStr, 1).bug
                 ELSE Made(i).bug
  IN  [g \in Guilds |-> [counter |-> n, items |-> [i \in 1..n |-> Item(i)]]]

\* the bug channels are configured, the store holds none, a few, or about
\* BoardMax bugs, of which none, some or all are resolved; a board message, if
\* there is one, still shows the board of the empty store
InitBoard ==
  /\ variant = "index"
  /\ clock = 1
  /\ \E msg \in {NoMessage, 1} :
       /\ guildSettings = [g \in Guilds |->
            [DefaultSettings EXCEPT !.bug_input_channel_id = InputChannel,
                                    !.bug_board_channel_id = BoardChannel,
                                    !.bug_board_message_id = msg]]
       /\ board = IF msg = NoMessage THEN <<>> ELSE <<NoEmbed>>
       /\ boardAt = IF msg = NoMessage THEN <<>> ELSE <<BoardChannel>>
  /\ \E n \in {0, 1, 2, BoardMax - 1, BoardMax, BoardMax + 1, BoardMax + 2} :
     \E resolved \in {{}, {i \in 1..n : i % 3 = 0}, {i \in 1..n : i % 2 = 1}, 1..n} :
       bugStore = BugsStored(n, resolved, {i \in 1..n : i % 4 = 2})
  /\ bugTasks = [t \in Slots |-> BugIdle]
  /\ bugOps = 0
  /\ TicketsAtRest
  /\ ev = Quiet
  /\ NoLedger

\* /bug board is run again and again, each time after the one before returned
NextBoard ==
  /\ \/ \E t \in Slots : BugBoard(t) /\ \A u \in Slots : bugTasks[u].op = "idle"
     \/ \E t \in Slots : BoardChannelFetched(t)
     \/ \E t \in Slots : BoardMessageFetched(t)
     \/ \E t \in Slots : BoardMessageSent(t)
     \/ \E t \in Slots : BoardMessageEdited(t)
  /\ UNCHANGED <<ticketVars, ledgerVars>>

SpecBoard == InitBoard /\ [][NextBoard]_vars

\* every call to the platform that ensureBugBoardMessage and refreshBugBoard
\* await succeeds: none of their catch handlers runs
PlatformOk ==
  \A t \in Slots :
    bugTasks'[t].pc # bugTasks[t].pc =>
      /\ bugTasks[t].pc = "r_chan" => bugTasks'[t].pc \in {"r_msg", "r_send"}
      /\ bugTasks[t].pc \in {"r_msg", "r_send"} => bugTasks'[t].pc = "r_edit"
      /\ bugTasks[t].pc = "r_edit" => board'[bugTasks[t].msg] = bugTasks[t].embed

\* the bug handlers of SpecBugs while the platform is up
NextBugsOk == NextBugs /\ PlatformOk

SpecBugsOk == InitBugs /\ [][NextBugsOk]_vars

\* every permissionOverwrites call of grantTicketAccess and revokeTicketAccess
\* succeeds: their catch handlers do not run
OverwritesOk ==
  \A t \in Slots :
    tasks'[t] # tasks[t] =>
      /\ tasks[t].pc \in {"add_grant", "grant"} =>
           overwrites' = Granted(overwrites, tasks[t].ch, tasks[t].target, TRUE)
      /\ tasks[t].pc \in {"rm_revoke", "revoke"} =>
           overwrites' = Revoked(overwrites, tasks[t].ch, tasks[t].target, TRUE)

\* the ticket handlers of SpecOps while the overwrite calls succeed
NextOpsOk == NextOps /\ OverwritesOk

SpecOpsOk == InitOps /\ [][NextOpsOk]_vars

\* the state after closeTicketChannel returned ok:true for the ticket of
\* InitOps: the record is closed, the notice and the log were attempted and
\* the timer of the deletion is running
InitClosed ==
  /\ NoBugs
  /\ variant \in {"index", "p001"}
  /\ clock = 1
  /\ guildSettings = [g \in Guilds |->
       [DefaultSettings EXCEPT !.ticket_counter = 1, !.ticket_category_id = Category]]
  /\ \E owner \in Users :
       /\ tickets = [c \in ChanIds |->
                       IF c = 1
                       THEN [NewTicket(TheGuild, owner) EXCEPT !.status = "closed",
                                                               !.closedAtMs = 1]
                       ELSE NoTicket]
       /\ overwrites = [c \in ChanIds |->
                          IF c = 1 THEN TicketOverwrites(owner) ELSE {}]
  /\ chanState = [c \in ChanIds |-> IF c = 1 THEN "live" ELSE "none"]
  /\ \E posted \in {0, 1} : notices = [c \in ChanIds |-> IF c = 1 THEN posted ELSE 0]
  /\ tried = [c \in ChanIds |-> IF c = 1 THEN {"notice", "log"} ELSE {}]
  /\ timers = ScheduleDelete([c \in ChanIds |-> 0], 1)
  /\ deleteCalls = [c \in ChanIds |-> 0]
  /\ tasks = [t \in Slots |-> Idle]
  /\ dispatched = 0
  /\ ev = Quiet
  /\ NoLedger
  /\ allocs = [g \in Guilds |-> <<1>>]

\* /ticket commands issued in the channel of the closed ticket until the
\* timer deletes the channel
NextClosed ==
  /\ \/ SetTicketStaffRole(TheGuild)
     \/ \E t \in Slots : DispatchTicket(t)
     \/ \E t \in Slots : TicketGate(t)
     \/ \E t \in Slots : AddGrant(t)
     \/ \E t \in Slots : RemoveRevoke(t)
     \/ \E t \in Slots : AssignFetch(t)
     \/ \E t \in Slots : Grant(t)
     \/ \E t \in Slots : Revoke(t)
     \/ \E t \in Slots : TicketSend(t)
     \/ \E t \in Slots : TicketLog(t)
     \/ \E t \in Slots : TranscriptBuilt(t)
     \/ \E c \in ChanIds : TimerFire(c)
  /\ UNCHANGED <<bugVars, ledgerVars>>

SpecClosed == InitClosed /\ [][NextClosed]_vars

\* ------------------------------------------------ the board channel is moved
\* another text channel of the guild
OtherBoard == "bd2"

\* /setbugchannels that names another board channel: setSettings with the new
\* channels and bug_board_message_id: null, then `await refreshBugBoard`
MoveBugChannels(t) ==
  /\ FreeBugSlot(t)
  /\ bugOps' = bugOps + 1
  /\ \E updates \in {Null, UpdatesChannel} :
       guildSettings' = setSettings(guildSettings, TheGuild,
                          [bug_input_channel_id |-> InputChannel,
                           bug_board_channel_id |-> OtherBoard,
                           bug_updates_channel_id |-> updates,
                           bug_board_message_id |-> NoMessage])
  /\ bugTasks' = [bugTasks EXCEPT ![t] =
                    RefreshTask(Locals("setbugchannels", 0, Null, EmptyStr), guildSettings')]
  /\ ev' = [BugEvent("setbugchannels", 0, Null, "configured", {}) EXCEPT !.refresh = TRUE]
  /\ UNCHANGED <<variant, clock, bugStore, board, boardAt>>

\* board refreshes next to a /setbugchannels that moves the board
NextRebind ==
  /\ \/ \E t \in Slots : MoveBugChannels(t)
     \/ \E t \in Slots : BugBoard(t)
     \/ \E t \in Slots : MessageCreate(t)
     \/ \E t \in Slots : BugStep(t)
  /\ UNCHANGED <<ticketVars, ledgerVars>>

SpecRebind == InitBugs /\ [][NextRebind]_vars

\* board refreshes of a guild whose board channel stays as configured, while
\* the platform is up: /bug board and the messages of the input channel
NextRefreshOk ==
  /\ \/ \E t \in Slots : BugBoard(t)
     \/ \E t \in Slots : MessageCreate(t)
     \/ \E t \in Slots : BugStep(t)
  /\ PlatformOk
  /\ UNCHANGED <<ticketVars, ledgerVars>>

SpecRefreshOk == InitBugs /\ [][NextRefreshOk]_vars

\* ------------------------------------------- the report the bot posts itself
\* messageCreate for a report message the modal handler posted into the input
\* channel: the author is the bot
OwnReportMessage(t) ==
  /\ FreeBugSlot(t)
  /\ bugOps' = bugOps + 1
  /\ \E id \in DOMAIN bugStore[TheGuild].items :
       LET s == getSettings(guildSettings, TheGuild)
           posted == bugStore[TheGuild].items[id]
           ch == posted.sourceChannelId
           mid == posted.sourceMessageId
           e(n, result) == [BugEvent("message", n, Me, result, {})
                              EXCEPT !.inCh = ch, !.msg = mid]
       IN
       /\ mid > 20
       /\ IF ~IsBugInput(s, Me, ch)
          THEN /\ ev' = e(0, "ignored")
               /\ UNCHANGED <<clock, bugStore, bugTasks>>
          ELSE \E now \in NowMs :
               LET parsed == bugFromMessage([content |-> EmptyStr, attachments |-> <<>>])
                   r == createBug(bugStore, TheGuild, Me, parsed.title,
                                  parsed.description, ch, mid, now)
               IN  /\ clock' = now
                   /\ bugStore' = r.bs
                   /\ bugTasks' = [bugTasks EXCEPT ![t] =
                        [Locals("message", r.bug.id, Null, EmptyStr) EXCEPT !.pc = "m_reply"]]
                   /\ ev' = e(r.bug.id, "saved")
  /\ UNCHANGED <<variant, guildSettings, board, boardAt>>

\* report modals next to the messages of the input channel, those the bot
\* posted included
NextReport ==
  /\ \/ \E t \in Slots : ModalReport(t)
     \/ \E t \in Slots : MessageCreate(t)
     \/ \E t \in Slots : OwnReportMessage(t)
     \/ \E t \in Slots : BugStep(t)
  /\ UNCHANGED <<ticketVars, ledgerVars>>

SpecReport == InitBugs /\ [][NextReport]_vars

\* ------------------------------------------------ reports of part_003
\* part_003, /bug report and the report modal: the configuration test, then
\* createBug, then `await postBugToChannel` up to its channels.fetch
Report003(t) ==
  /\ variant = "p003"
  /\ FreeBugSlot(t)
  /\ bugOps' = bugOps + 1
  /\ \E via \in {"cmd", "modal"}, reporter \in Reporters :
       IF getSettings(guildSettings, TheGuild).bug_input_channel_id = Null
       THEN /\ ev' = [BugEvent("report", 0, reporter, "not_configured", {}) EXCEPT !.via = via]
            /\ UNCHANGED <<clock, bugStore, bugTasks>>
       ELSE \E now \in NowMs :
            LET r == createBug(bugStore, TheGuild, reporter, <<Run("a", 2)>>, <<Run("b", 3)>>,
                               Null, NoMessage, now)
            IN  /\ clock' = now
                /\ bugStore' = r.bs
                /\ bugTasks' = [bugTasks EXCEPT ![t] =
                     [Locals("report", r.bug.id, Null, EmptyStr) EXCEPT !.pc = "q_chan"]]
                /\ ev' = [BugEvent("report", r.bug.id, reporter, "created", {})
                            EXCEPT !.via = via]
  /\ UNCHANGED <<variant, guildSettings, board, boardAt>>

\* postBugToChannel: channels.fetch(reports).catch resolved
PostChannel003(t) ==
  /\ bugTasks[t].pc = "q_chan"
  /\ \E ok \in BOOLEAN :
       IF ok
       THEN /\ bugTasks' = [bugTasks EXCEPT ![t].pc = "q_send"]
            /\ ev' = Quiet
       ELSE /\ bugTasks' = [bugTasks EXCEPT ![t] = BugIdle]
            /\ ev' = BugEvent("report", bugTasks[t].id, Null, "invalid_channel", {})
  /\ UNCHANGED <<variant, clock, guildSettings, bugStore, board, boardAt, bugOps>>

\* postBugToChannel: target.send(embed).catch resolved; the bug gets the
\* channel and the id of the message, 20 + n for bug n
PostSent003(t) ==
  LET id == bugTasks[t].id IN
  /\ bugTasks[t].pc = "q_send"
  /\ \E posted \in BOOLEAN :
       IF ~posted
       THEN /\ bugTasks' = [bugTasks EXCEPT ![t] = BugIdle]
            /\ ev' = BugEvent("report", id, Null, "post_failed", {})
            /\ UNCHANGED bugStore
       ELSE /\ bugStore' = [bugStore EXCEPT ![TheGuild].items[id] =
                              [@ EXCEPT !.sourceChannelId = InputChannel,
                                        !.sourceMessageId = 20 + id]]
            /\ bugTasks' = [bugTasks EXCEPT ![t].pc = "q_edit"]
            /\ ev' = BugEvent("report", id, Null, "posted", {"report"})
  /\ UNCHANGED <<variant, clock, guildSettings, board, boardAt, bugOps>>

\* placeholder.edit(...).catch resolved, then the awaits of updateBugMessage:
\* channels.fetch, messages.fetch and msg.edit; then the success reply
ReportUpdate003(t) ==
  /\ bugTasks[t].pc \in {"q_edit", "q_uchan", "q_umsg", "q_uedit"}
  /\ \E ok \in BOOLEAN :
       LET pc == bugTasks[t].pc
           next == IF pc = "q_edit" THEN "q_uchan"
                   ELSE IF pc = "q_uchan" /\ ok THEN "q_umsg"
                   ELSE IF pc = "q_umsg" /\ ok THEN "q_uedit"
                   ELSE "idle"
       IN  IF next = "idle"
           THEN /\ bugTasks' = [bugTasks EXCEPT ![t] = BugIdle]
                /\ ev' = BugEvent("report", bugTasks[t].id, Null, "saved", {})
           ELSE /\ bugTasks' = [bugTasks EXCEPT ![t].pc = next]
                /\ ev' = Quiet
  /\ UNCHANGED <<variant, clock, guildSettings, bugStore, board, boardAt, bugOps>>

\* start-up, or the bug channels configured and no bug stored
InitSubmit ==
  /\ variant \in {"index", "p003"}
  /\ clock = 1
  /\ \/ guildSettings = [g \in Guilds |-> DefaultSettings]
     \/ \E updates \in {Null, UpdatesChannel} :
          guildSettings = [g \in Guilds |->
             [DefaultSettings EXCEPT !.bug_input_channel_id = InputChannel,
                                     !.bug_board_channel_id = BoardChannel,
                                     !.bug_updates_channel_id = updates]]
  /\ NoBugs
  /\ TicketsAtRest
  /\ dispatched = 0
  /\ ev = Quiet
  /\ NoLedger
  /\ allocs = [g \in Guilds |-> <<>>]

\* bug reports by modal (index.js, part_003) and by command (part_003)
NextSubmit ==
  /\ \/ /\ variant = "index"
        /\ \/ \E t \in Slots : ModalReport(t)
           \/ \E t \in Slots : ReportChannel(t)
           \/ \E t \in Slots : ReportPosted(t)
           \/ \E t \in Slots : BoardChannelFetched(t)
           \/ \E t \in Slots : BoardMessageFetched(t)
           \/ \E t \in Slots : BoardMessageSent(t)
           \/ \E t \in Slots : BoardMessageEdited(t)
     \/ \E t \in Slots : Report003(t)
     \/ \E t \in Slots : PostChannel003(t)
     \/ \E t \in Slots : PostSent003(t)
     \/ \E t \in Slots : ReportUpdate003(t)
  /\ UNCHANGED <<ticketVars, ledgerVars>>

SpecSubmit == InitSubmit /\ [][NextSubmit]_vars

\* ============================================================ properties
\* the predicates of the properties are written without the operators above

StaffNow(u) ==
  \/ HasManageGuild(u)
  \/ /\ guildSettings[TheGuild].ticket_staff_role_id # Null
     /\ guildSettings[TheGuild].ticket_staff_role_id \in MemberRoles(u)

ManagesNow(u, c) ==
  /\ u # Null
  /\ c \in ChanIds
  /\ tickets[c].status # "none"
  /\ \/ StaffNow(u)
     \/ tickets[c].ownerId = u
     \/ u \in tickets[c].assignedStaffIds

NotClosable(g, c) ==
  \/ c \notin ChanIds
  \/ tickets[c].status # "open"
  \/ tickets[c].guildId # g

StaffOnlyOps == {"add", "remove", "claim", "assign", "unassign"}

\* the program counters a staff-only subcommand reaches behind its check
BehindStaffCheck ==
  {"add_grant", "rm_revoke", "as_fetch", "grant", "revoke", "t_send", "t_log"}

\* C1: a ticket's status only ever moves from open to closed and a closed
\* ticket is never reopened; closedAtMs is stamped exactly once, with the
\* clock value of the step that closes the ticket, and never changes again.
C1_StatusOnlyOpenToClosed ==
  [][\A c \in ChanIds :
       LET a == tickets[c]  b == tickets'[c] IN
       /\ a.status = "closed" => b.status = "closed" /\ b.closedAtMs = a.closedAtMs
       /\ a.status = "open" => b.status \in {"open", "closed"}
       /\ a.status = "open" /\ b.status = "open" => a.closedAtMs = 0 /\ b.closedAtMs = 0
       /\ a.status = "open" /\ b.status = "closed" =>
             b.closedAtMs = clock' /\ b.closedAtMs >= 1]_vars

\* a closed ticket whose second close was refused
C1_Witness ==
  /\ ev.op = "close" /\ ev.result = "not_open"
  /\ ev.ch \in ChanIds
  /\ tickets[ev.ch].status = "closed"
  /\ tickets[ev.ch].closedAtMs >= 1

\* C2: closeTicketChannel called for a channel without ticket record, for a
\* ticket of another guild or for a ticket that is not open returns ok:false
\* and changes nothing: no ticket field, no message, no log entry, no
\* deletion scheduled.
C2_RefusedCloseChangesNothing ==
  [][(ev'.closeCall.g # Null /\ NotClosable(ev'.closeCall.g, ev'.closeCall.c)) =>
       /\ ev'.result = "not_open"
       /\ ev'.posts = {}
       /\ UNCHANGED <<clock, guildSettings, tickets, chanState, overwrites, notices,
                      tried, timers, deleteCalls, tasks>>]_vars

\* closeTicketChannel refused a ticket that was closed before, after the log
\* channel was configured
C2_Witness ==
  /\ ev.closeCall.g # Null /\ ev.result = "not_open"
  /\ ev.closeCall.c \in ChanIds /\ ev.closeCall.g = TheGuild
  /\ tickets[ev.closeCall.c].status = "closed"
  /\ guildSettings[TheGuild].log_channel_id # Null

\* C3: within a guild the ticket numbers handed out are strictly increasing,
\* so no number is handed out twice, whatever the interleaving of creation
\* handlers and settings commands, and also when a creation fails after it
\* took its number.
C3_NumbersStrictlyIncrease ==
  \A g \in Guilds : \A i, j \in DOMAIN allocs[g] :
     i < j => allocs[g][i] < allocs[g][j]

\* two creations took their numbers, one of them just failed behind the
\* increment while the other is still in flight, and the staff role was set
C3_Witness ==
  /\ Len(allocs[TheGuild]) = 2
  /\ ev.op = "create" /\ ev.result \in {"error_reply", "unhandled"}
  /\ \E t \in Slots : tasks[t].pc \in {"c_me", "c_mkch", "c_welcome", "c_log"}
  /\ guildSettings[TheGuild].ticket_staff_role_id # Null

\* C4: canManageTicket(member, ticket) is true exactly when the member has
\* Manage Server, or holds the staff role configured now, or owns the ticket,
\* or is in its assigned set; it is false for a missing member or ticket.
C4_CanManageCharacterised ==
  \A m \in Targets \cup {Null}, c \in ChanIds \cup {General} :
     canManageTicket(guildSettings, TheGuild, m, getTicket(tickets, c))
       <=> ManagesNow(m, c)

\* a member who lost the staff role still manages the ticket they claimed
C4_Witness ==
  \E c \in ChanIds :
    /\ "stf" \in tickets[c].assignedStaffIds
    /\ tickets[c].ownerId # "stf"
    /\ guildSettings[TheGuild].ticket_staff_role_id = Null
    /\ canManageTicket(guildSettings, TheGuild, "stf", tickets[c])
    /\ ~canManageTicket(guildSettings, TheGuild, "usr", getTicket(tickets, General))

\* what the permission check of close and transcript can answer
GateAnswers == {"refused", "permitted", "closing", "not_open"}

\* C5: close and transcript are permitted exactly for the members for whom
\* canManageTicket holds: every step that answers the permission check of one
\* of the two refuses if and only if the invoker does not manage the ticket.
\* (part_003 has no such check and is left out of the statement.)
C5_CloseTranscriptIffManage ==
  [][(/\ variant # "p003"
      /\ ev'.op \in {"close", "transcript"}
      /\ ev'.result \in GateAnswers) =>
       (ev'.result # "refused" <=> ManagesNow(ev'.by, ev'.ch))]_vars

\* C6: add, remove, claim, assign and unassign go ahead only for an invoker
\* with Manage Server or the staff role; every other invoker, the owner
\* included, is refused and the added set, the assigned set and the
\* overwrites stay as they are; nothing but a subcommand that passed the
\* check changes the sets or the overwrites.
C6_StaffOnlyOperations ==
  [][/\ (ev'.op \in StaffOnlyOps /\ ev'.result \in {"refused", "permitted", "refused_bot"}) =>
          /\ (ev'.by = Null \/ ~StaffNow(ev'.by)) => ev'.result = "refused"
          /\ ev'.result = "refused" => UNCHANGED <<tickets, overwrites>>
          /\ ev'.result # "refused" => ev'.by # Null /\ StaffNow(ev'.by)
     /\ \A t \in Slots :
          (tasks'[t].pc \in BehindStaffCheck /\ tasks[t].pc \notin BehindStaffCheck) =>
             /\ ev'.op \in StaffOnlyOps /\ ev'.result = "permitted"
             /\ StaffNow(ev'.by)
     /\ \A c \in ChanIds :
          (\/ tickets'[c].addedUserIds # tickets[c].addedUserIds
           \/ tickets'[c].assignedStaffIds # tickets[c].assignedStaffIds
           \/ overwrites'[c] # overwrites[c]) =>
             \/ ev'.op \in StaffOnlyOps /\ ev'.result = "permitted" /\ StaffNow(ev'.by)
             \/ \E t \in Slots : /\ tasks[t].pc \in BehindStaffCheck
                                 /\ tasks[t].ch = c
                                 /\ tasks'[t] # tasks[t]]_vars

\* the owner of a ticket, without staff role or Manage Server, was refused a
\* staff-only subcommand on it
C6_Witness ==
  /\ ev.op \in StaffOnlyOps /\ ev.result = "refused"
  /\ ev.ch \in ChanIds
  /\ ev.by = tickets[ev.ch].ownerId
  /\ ~StaffNow(ev.by)

\* C7: assign puts the target into the assigned set only if the target
\* qualifies as staff at that moment; for any other target the set stays as
\* it is.
C7_AssignOnlyStaff ==
  [][ev'.op = "assign" =>
       \A c \in ChanIds :
         \A u \in tickets'[c].assignedStaffIds \ tickets[c].assignedStaffIds :
            StaffNow(u)]_vars

\* C8: when closeTicketChannel returns ok:true the ticket is closed and has
\* its closing timestamp; the deletion timer is set only after both the
\* closing notice and the log notification were attempted; and once ok:true
\* was returned the deletion of the channel is eventually attempted, whether
\* or not the notice or the log went through.
C8_CloseSchedulesDeletion ==
  /\ [](ev.result = "closed" =>
          /\ tickets[ev.ch].status = "closed"
          /\ tickets[ev.ch].closedAtMs >= 1
          /\ timers[ev.ch] + deleteCalls[ev.ch] >= 1)
  /\ [](\A c \in ChanIds :
          timers[c] + deleteCalls[c] >= 1 => tried[c] = {"notice", "log"})
  /\ \A c \in ChanIds :
       (ev.result = "closed" /\ ev.ch = c) ~> (deleteCalls[c] >= 1)

\* the deletion was attempted although neither the notice nor a log entry
\* was posted while a log channel is configured
C8_Witness ==
  \E c \in ChanIds :
    /\ deleteCalls[c] >= 1
    /\ tickets[c].status = "closed"
    /\ notices[c] = 0
    /\ guildSettings[TheGuild].log_channel_id # Null
    /\ chanState[c] = "deleted"

\* C9: createTicketChannel stores the ticket (open, both sets empty, owned by
\* the requester) in the step in which the channel comes to exist; neither
\* the welcome message nor the log changes the record or keeps the call from
\* returning; when the call throws no record is stored.
C9_RecordStoredWithChannel ==
  [][/\ \A c \in ChanIds :
          (chanState[c] = "none" /\ chanState'[c] # "none") =>
             /\ ev'.result = "channel" /\ ev'.ch = c
             /\ tickets'[c].guildId = TheGuild
             /\ tickets'[c].ownerId = ev'.by /\ ev'.by \in Users
             /\ tickets'[c].status = "open"
             /\ tickets'[c].assignedStaffIds = {}
             /\ tickets'[c].addedUserIds = {}
     /\ \A c \in ChanIds :
          (tickets[c].status = "none" /\ tickets'[c].status # "none") =>
             chanState[c] = "none" /\ chanState'[c] = "live"
     /\ ev'.result \in {"error_reply", "unhandled", "no_member"} =>
          UNCHANGED <<tickets, chanState>>
     /\ \A t \in Slots :
          (tasks[t].pc \in {"c_welcome", "c_log"} /\ tasks'[t] # tasks[t]) =>
             /\ UNCHANGED tickets
             /\ tasks'[t].pc = "c_log" \/ ev'.result = "created"]_vars

\* the call returned the channel although neither welcome nor log went out
\* while a log channel is configured, and the record is there
C9_Witness ==
  /\ ev.op = "create" /\ ev.result = "created" /\ ev.posts = {}
  /\ ev.ch \in ChanIds
  /\ guildSettings[TheGuild].log_channel_id # Null
  /\ tickets[ev.ch].status = "open"
  /\ tickets[ev.ch].ownerId \in Users

\* C10: the status of every stored bug is at all times one of OPEN,
\* IN_PROGRESS, WAITING, CANT_FIX, CANT_REPRODUCE and RESOLVED, whatever a
\* status command or a status modal carries.
C10_BugStatusAlwaysValid ==
  \A g \in Guilds : \A i \in DOMAIN bugStore[g].items :
     bugStore[g].items[i].status \in
       {"OPEN", "IN_PROGRESS", "WAITING", "CANT_FIX", "CANT_REPRODUCE", "RESOLVED"}

\* a status that is not in the list was just refused and the stored bug
\* kept the status it had
C10_Witness ==
  /\ ev.op = "status" /\ ev.result = "invalid_status"
  /\ HasManageGuild(ev.by)
  /\ 1 \in DOMAIN bugStore[TheGuild].items
  /\ bugStore[TheGuild].items[1].status = "OPEN"

\* the owner of a ticket, who manages it, was refused its transcript
C5_Witness ==
  /\ variant = "index"
  /\ ev.op = "transcript" /\ ev.result = "refused"
  /\ ev.ch \in ChanIds
  /\ ev.by = tickets[ev.ch].ownerId
  /\ ManagesNow(ev.by, ev.ch)

\* a member without Manage Server or staff role sits in the assigned set
\* because a staff member assigned them
C7_Witness ==
  /\ variant = "p001"
  /\ ev.op = "assign" /\ ev.result = "permitted"
  /\ ev.ch \in ChanIds
  /\ ev.target \in tickets[ev.ch].assignedStaffIds
  /\ ~StaffNow(ev.target)

\* ------------------------------------------------- properties of the bug store
\* C11: bug ids are allocated 1, 2, 3, ... per guild: the stored ids are
\* always exactly 1..counter and each bug sits under its own id; the counter
\* never goes down and moves by one at a time; a step that moves it stores
\* exactly one new bug, under the new counter value, an id no bug had before;
\* no bug is ever removed and the bug under an id stays the bug it was (same
\* id, reporter and source message)
C11_BugIdsDenseAndStable ==
  /\ [](\A g \in Guilds :
          /\ DOMAIN bugStore[g].items = 1..bugStore[g].counter
          /\ \A i \in DOMAIN bugStore[g].items : bugStore[g].items[i].id = i)
  /\ [][\A g \in Guilds :
          /\ bugStore'[g].counter \in {bugStore[g].counter, bugStore[g].counter + 1}
          /\ DOMAIN bugStore[g].items \subseteq DOMAIN bugStore'[g].items
          /\ \A i \in DOMAIN bugStore[g].items :
               /\ bugStore'[g].items[i].id = bugStore[g].items[i].id
               /\ bugStore'[g].items[i].reporterId = bugStore[g].items[i].reporterId
               /\ bugStore'[g].items[i].sourceMessageId = bugStore[g].items[i].sourceMessageId
          /\ bugStore'[g].counter # bugStore[g].counter =>
               /\ bugStore'[g].counter \notin DOMAIN bugStore[g].items
               /\ DOMAIN bugStore'[g].items =
                    DOMAIN bugStore[g].items \cup {bugStore'[g].counter}]_vars

\* two creation handlers ran one into the other: the message handler that
\* stored bug 1 still waits for its board refresh while the report modal has
\* just stored bug 2
C11_Witness ==
  /\ bugStore[TheGuild].counter = 2
  /\ ev.op = "report" /\ ev.result = "saved" /\ ev.id = 2
  /\ \E t \in Slots : bugTasks[t].op = "message" /\ bugTasks[t].id = 1
  /\ bugStore[TheGuild].items[1].sourceMessageId # bugStore[TheGuild].items[2].sourceMessageId

\* C12: a status set, a comment or a reopen that reaches its store function
\* with an id no bug has is answered with "not found": the store (counter and
\* every bug) is unchanged, no record appears, no handler is left running, no
\* board refresh is started, nothing is posted and nothing is announced
C12_UnknownIdChangesNothing ==
  [][(/\ ev'.op \in {"status", "comment", "reopen"}
      /\ ev'.result \in {"updated", "not_found"}
      /\ ev'.id \notin DOMAIN bugStore[TheGuild].items)
     => /\ ev'.result = "not_found"
        /\ bugStore' = bugStore
        /\ bugTasks' = bugTasks
        /\ board' = board
        /\ ~ev'.refresh
        /\ ev'.posts = {}
        /\ ev'.announce.status = Null]_vars

\* a permitted reopen of bug 2 was just answered with "not found" while the
\* store holds bug 1 only
C12_Witness ==
  /\ ev.op = "reopen" /\ ev.result = "not_found" /\ ev.id = 2
  /\ HasManageGuild(ev.by)
  /\ bugStore[TheGuild].counter = 1
  /\ DOMAIN bugStore[TheGuild].items = {1}

\* C13: addBugComment returns null only for an id no bug has, and then writes
\* nothing; called on an existing bug it returns that bug, whose comment list
\* is the old list with exactly one comment added at its end (the author, the
\* text without surrounding blanks cut to 900 characters, the time of the
\* call), and whose update time is the time of the call
C13_CommentAppendedUnlessUnknown ==
  [][ev'.call.fn = "addBugComment" =>
       LET id == ev'.call.id
           old == bugStore[TheGuild].items[id]
           new == bugStore'[TheGuild].items[id]
       IN  IF id \notin DOMAIN bugStore[TheGuild].items
           THEN ev'.call.ret = 0 /\ bugStore' = bugStore
           ELSE /\ ev'.call.ret = id
                /\ Len(new.comments) = Len(old.comments) + 1
                /\ SubSeq(new.comments, 1, Len(old.comments)) = old.comments
                /\ new.comments[Len(new.comments)] =
                     [byId |-> ev'.call.byId,
                      text |-> Slice(Trim(ev'.call.text), TextMax),
                      atMs |-> clock']
                /\ StrLen(new.comments[Len(new.comments)].text) <= TextMax
                /\ new.updatedAtMs = clock']_vars

\* addBugComment was just called on the existing bug 1 with a text of two
\* blanks and returned null; the bug has the comments it had
C13_Witness ==
  /\ ev.call.fn = "addBugComment" /\ ev.call.id = 1
  /\ 1 \in DOMAIN bugStore[TheGuild].items
  /\ ev.call.text = <<Run("SP", 2)>>
  /\ ev.call.ret = 0
  /\ bugOps = 1
  /\ Len(bugStore[TheGuild].items[1].comments) <= 1

\* C14: setBugStatus on an existing bug stores the given status and the time
\* of the call; the assignee becomes the given one when one is given and is
\* kept otherwise; the note becomes the given one (cut to 900 characters) when
\* it is not empty and is kept otherwise; id, title, description, reporter,
\* source and comments are the ones the bug had, and so are the other bugs
\* and the counter
C14_SetBugStatusFrame ==
  [][(ev'.call.fn = "setBugStatus" /\ ev'.call.id \in DOMAIN bugStore[TheGuild].items) =>
       LET id == ev'.call.id
           old == bugStore[TheGuild].items[id]
           new == bugStore'[TheGuild].items[id]
       IN  /\ ev'.call.ret = id
           /\ new.status = ev'.call.status
           /\ new.updatedAtMs = clock'
           /\ new.assignedToId = IF ev'.call.assignedToId = Undefined
                                 THEN old.assignedToId ELSE ev'.call.assignedToId
           /\ new.lastNote = IF ev'.call.text = EmptyStr
                             THEN old.lastNote ELSE Slice(ev'.call.text, TextMax)
           /\ new.id = old.id
           /\ new.title = old.title
           /\ new.description = old.description
           /\ new.reporterId = old.reporterId
           /\ new.sourceChannelId = old.sourceChannelId
           /\ new.sourceMessageId = old.sourceMessageId
           /\ new.comments = old.comments
           /\ bugStore'[TheGuild].counter = bugStore[TheGuild].counter
           /\ DOMAIN bugStore'[TheGuild].items = DOMAIN bugStore[TheGuild].items
           /\ \A i \in DOMAIN bugStore[TheGuild].items \ {id} :
                bugStore'[TheGuild].items[i] = bugStore[TheGuild].items[i]]_vars

\* setBugStatus was just called on bug 1 without assignee and without note:
\* the bug, which had an assignee, a note and a comment, went from RESOLVED to
\* IN_PROGRESS and still has all three
C14_Witness ==
  /\ ev.call.fn = "setBugStatus" /\ ev.call.id = 1 /\ ev.call.ret = 1
  /\ ev.call.assignedToId = Undefined
  /\ ev.call.text = EmptyStr
  /\ ev.call.was = "RESOLVED"
  /\ bugStore[TheGuild].items[1].status = "IN_PROGRESS"
  /\ bugStore[TheGuild].items[1].assignedToId = "stf"
  /\ bugStore[TheGuild].items[1].lastNote # EmptyStr
  /\ bugStore[TheGuild].items[1].comments # <<>>

\* C15: reopenBug on an existing bug, whatever its status, leaves it OPEN
\* with the time of the call as update time and with the assignee, comments,
\* reporter, title and description it had; setBugStatus on an existing bug,
\* whatever its status, leaves it with the status it was given
C15_ReopenFromAnyStatus ==
  [][(ev'.call.fn \in {"reopenBug", "setBugStatus"}
        /\ ev'.call.id \in DOMAIN bugStore[TheGuild].items) =>
       LET old == bugStore[TheGuild].items[ev'.call.id]
           new == bugStore'[TheGuild].items[ev'.call.id]
       IN  /\ ev'.call.was = old.status
           /\ ev'.call.ret = ev'.call.id
           /\ ev'.call.fn = "setBugStatus" => new.status = ev'.call.status
           /\ ev'.call.fn = "reopenBug" =>
                /\ new.status = "OPEN"
                /\ new.updatedAtMs = clock'
                /\ new.assignedToId = old.assignedToId
                /\ new.comments = old.comments
                /\ new.reporterId = old.reporterId
                /\ new.title = old.title
                /\ new.description = old.description]_vars

\* reopenBug was just called on bug 1, which was RESOLVED: it is OPEN and
\* still has its assignee and its comment
C15_Witness ==
  /\ ev.call.fn = "reopenBug" /\ ev.call.id = 1 /\ ev.call.ret = 1
  /\ ev.call.was = "RESOLVED"
  /\ bugStore[TheGuild].items[1].status = "OPEN"
  /\ bugStore[TheGuild].items[1].assignedToId = "stf"
  /\ bugStore[TheGuild].items[1].comments # <<>>

\* C16: a status set, a comment, a reopen or a board refresh asked for by
\* somebody without the Manage Server permission, by command, button or modal,
\* changes no bug, starts no board refresh, leaves no handler running that
\* could announce, and posts nothing
C16_BugOpsNeedManageGuild ==
  [][(/\ ev'.op \in {"status", "comment", "reopen", "board"}
      /\ ev'.by \in Users
      /\ ~HasManageGuild(ev'.by))
     => /\ bugStore' = bugStore
        /\ bugTasks' = bugTasks
        /\ board' = board
        /\ ~ev'.refresh
        /\ ev'.posts = {}]_vars

\* part_003: "usr", who has no Manage Server permission, just set bug 1 to
\* RESOLVED with /bug status
C16_Witness ==
  /\ variant = "p003"
  /\ ev.op = "status" /\ ev.result = "updated" /\ ev.id = 1
  /\ ev.by = "usr" /\ ~HasManageGuild(ev.by)
  /\ bugStore[TheGuild].items[1].status = "RESOLVED"

\* C17: the message an announcement hands to ch.send mentions the reporter of
\* the bug if the bug is RESOLVED at that moment and mentions nobody if it has
\* any other status; the message that is then posted carries the mention
\* exactly if the message handed over did
C17_MentionIffResolved ==
  [][/\ ev'.result = "sending" =>
          LET bug == bugStore[TheGuild].items[ev'.id] IN
          /\ ev'.announce.status = bug.status
          /\ ev'.announce.mention =
               IF bug.status = "RESOLVED" THEN bug.reporterId ELSE Null
          /\ \E t \in Slots :
               /\ bugTasks[t].pc = "a_chan" /\ bugTasks'[t].pc = "a_send"
               /\ bugTasks'[t].tag = (bug.status = "RESOLVED")
     /\ ev'.result = "announced" =>
          \E t \in Slots :
            /\ bugTasks[t].pc = "a_send" /\ bugTasks'[t].pc = "idle"
            /\ "mention" \in ev'.posts <=> ("update" \in ev'.posts /\ bugTasks[t].tag)]_vars

\* the announcement of a comment on bug 1, which an earlier status set left
\* RESOLVED, is being sent with the mention of its reporter
C17_Witness ==
  /\ ev.op = "comment" /\ ev.result = "sending" /\ ev.id = 1
  /\ bugStore[TheGuild].items[1].status = "RESOLVED"
  /\ ev.announce.status = "RESOLVED"
  /\ ev.announce.mention = bugStore[TheGuild].items[1].reporterId

\* C18: when the status handler that set a bug to RESOLVED with a note comes
\* to send its announcement, the message shows status RESOLVED and that note
\* and mentions the reporter of the bug, whatever other handlers did to the
\* bug since
C18_ResolvedAnnouncementKept ==
  [][\A t \in Slots :
       (/\ bugTasks[t].pc = "a_chan" /\ bugTasks'[t].pc = "a_send"
        /\ bugTasks[t].op = "status"
        /\ bugTasks[t].status = "RESOLVED"
        /\ bugTasks[t].note # EmptyStr)
       => /\ ev'.announce.status = "RESOLVED"
          /\ ev'.announce.note = bugTasks[t].note
          /\ ev'.announce.mention = bugStore[TheGuild].items[bugTasks[t].id].reporterId]_vars

\* index.js: the handler that set bug 1 to RESOLVED with a note is sending its
\* announcement after a reopen of bug 1 came in between: the message shows
\* OPEN and mentions nobody
C18_Witness ==
  /\ variant = "index"
  /\ ev.op = "status" /\ ev.result = "sending" /\ ev.id = 1
  /\ \E t \in Slots :
       /\ bugTasks[t].pc = "a_send" /\ bugTasks[t].op = "status"
       /\ bugTasks[t].status = "RESOLVED" /\ bugTasks[t].note # EmptyStr
  /\ ev.announce.status = "OPEN"
  /\ ev.announce.mention = Null

\* C19: a message in a guild creates a bug exactly if its author is no bot, an
\* input channel is configured and the message is in it. Such a message adds
\* exactly one bug, under the next id, OPEN, reported by the author and
\* pointing at the channel and the message, and changes no other bug; any
\* other message changes neither store nor board and starts no handler. The
\* handler of a stored message waits for its reply once, calls the board
\* refresh when it leaves that wait, and no other step of a message handler
\* calls it; a handler that waits for its reply does get to the refresh
C19_OneBugAndOneRefreshPerMessage ==
  /\ [][/\ (ev'.op = "message" /\ ev'.result \in {"saved", "ignored"}) =>
             LET s == guildSettings[TheGuild]
                 n == bugStore[TheGuild].counter
                 items == bugStore[TheGuild].items
                 after == bugStore'[TheGuild].items
             IN  IF /\ ev'.by # BotUser
                    /\ s.bug_input_channel_id # Null
                    /\ ev'.inCh = s.bug_input_channel_id
                 THEN /\ ev'.result = "saved" /\ ev'.id = n + 1
                      /\ bugStore'[TheGuild].counter = n + 1
                      /\ DOMAIN after = DOMAIN items \cup {n + 1}
                      /\ n + 1 \notin DOMAIN items
                      /\ \A i \in DOMAIN items : after[i] = items[i]
                      /\ after[n + 1].id = n + 1
                      /\ after[n + 1].status = "OPEN"
                      /\ after[n + 1].reporterId = ev'.by
                      /\ after[n + 1].sourceChannelId = ev'.inCh
                      /\ after[n + 1].sourceMessageId = ev'.msg
                      /\ \E t \in Slots : /\ bugTasks[t].pc = "idle"
                                          /\ bugTasks'[t].pc = "m_reply"
                                          /\ bugTasks'[t].id = n + 1
                 ELSE /\ ev'.result = "ignored"
                      /\ bugStore' = bugStore
                      /\ bugTasks' = bugTasks
                      /\ board' = board
                      /\ ~ev'.refresh
        /\ \A t \in Slots :
             /\ (bugTasks'[t].pc = "m_reply" /\ bugTasks'[t] # bugTasks[t]) =>
                  /\ bugTasks[t].pc = "idle"
                  /\ ev'.op = "message" /\ ev'.result = "saved" /\ ev'.id = bugTasks'[t].id
             /\ (bugTasks[t].pc = "m_reply" /\ bugTasks'[t] # bugTasks[t]) =>
                  /\ ev'.op = "message" /\ ev'.refresh /\ ev'.id = bugTasks[t].id
                  /\ bugTasks'[t].pc # "m_reply"
        /\ (ev'.op = "message" /\ ev'.refresh) =>
             \E t \in Slots : /\ bugTasks[t].pc = "m_reply" /\ bugTasks'[t].pc # "m_reply"
                              /\ bugTasks[t].id = ev'.id]_vars
  /\ \A t \in Slots :
       (bugTasks[t].pc = "m_reply") ~> (bugTasks[t].pc # "m_reply")

\* the message of "stf" in the input channel was just stored as bug 2 while
\* the handler of the message that became bug 1 is still busy
C19_Witness ==
  /\ ev.op = "message" /\ ev.result = "saved" /\ ev.id = 2
  /\ ev.by = "stf" /\ ev.inCh = guildSettings[TheGuild].bug_input_channel_id
  /\ bugStore[TheGuild].items[2].reporterId = "stf"
  /\ bugStore[TheGuild].items[2].status = "OPEN"
  /\ bugStore[TheGuild].items[2].sourceMessageId = ev.msg
  /\ \E t \in Slots : bugTasks[t].op = "message" /\ bugTasks[t].id = 1

\* C20: the bug made from a message with content has as title the first line
\* of the content cut to 100 characters and, when the message has no
\* attachment, as description the content after the first line cut to 900
\* characters, each without surrounding blanks and replaced by its placeholder
\* when nothing is left; the bug made from a message without content has the
\* placeholder title and a description that starts with the placeholder; no
\* stored title is longer than 100 characters
C20_TitleFirstLineDescriptionRest ==
  /\ [](\A i \in DOMAIN bugStore[TheGuild].items :
          StrLen(bugStore[TheGuild].items[i].title) <= TitleMax)
  /\ [][ev'.call.fn = "bugFromMessage" =>
          LET RECURSIVE Rest(_)
              Rest(s) == IF s = <<>> THEN <<>>
                         ELSE IF Head(s).c # "LF" THEN Rest(Tail(s))
                         ELSE IF Head(s).n = 1 THEN Tail(s)
                         ELSE <<Run("LF", Head(s).n - 1)>> \o Tail(s)
              OrElse(s, placeholder) == IF Trim(s) = EmptyStr THEN placeholder ELSE Trim(s)
              content == Trim(ev'.call.text)
              bug == bugStore'[TheGuild].items[ev'.call.ret]
          IN  IF content = EmptyStr
              THEN /\ bug.title = BugReport
                   /\ Head(bug.description) = Head(NotAvailable)
              ELSE /\ bug.title = OrElse(Slice(FirstLine(content), TitleMax), Untitled)
                   /\ ev'.call.attachments = <<>> =>
                        bug.description = OrElse(Slice(Rest(content), TextMax), NoDescription)]_vars

\* the message "a", new line, "a" without attachment was just stored: the
\* description of the bug is the whole content, first line included
C20_Witness ==
  /\ ev.call.fn = "bugFromMessage" /\ ev.call.ret = 1
  /\ ev.call.text = <<Run("a", 1), Run("LF", 1), Run("a", 1)>>
  /\ ev.call.attachments = <<>>
  /\ bugStore[TheGuild].items[1].title = <<Run("a", 1)>>
  /\ bugStore[TheGuild].items[1].description = ev.call.text

\* C21: ensureBugBoardMessage is idempotent. A call that posts a board message
\* posts exactly one, does so only while no reference is stored or after the
\* stored reference failed to resolve for it, and stores the id of the new
\* message; a call that gets the stored message back, or that ends on a
\* missing channel or a failed post, posts nothing and leaves the stored
\* reference as it is; no other step posts a board message.
C21_EnsureBoardIdempotent ==
  [][LET ref == guildSettings[TheGuild].bug_board_message_id
         InEnsure(t) == bugTasks[t].pc \in {"r_chan", "r_msg", "r_send"}
         Moved(t) == bugTasks'[t] # bugTasks[t]
     IN  /\ Len(board') \in {Len(board), Len(board) + 1}
         /\ Len(board') > Len(board) =>
              \E t \in Slots :
                /\ bugTasks[t].pc = "r_send" /\ Moved(t)
                /\ ref = NoMessage \/ bugTasks[t].sMsg = ref
                /\ guildSettings'[TheGuild].bug_board_message_id = Len(board')
                /\ bugTasks'[t].pc = "r_edit" /\ bugTasks'[t].msg = Len(board')
         /\ \A t \in Slots :
              InEnsure(t) /\ Moved(t) /\ Len(board') = Len(board) =>
                /\ guildSettings' = guildSettings
                /\ board' = board
                /\ bugTasks'[t].pc = "r_edit" =>
                     /\ bugTasks[t].pc = "r_msg"
                     /\ bugTasks'[t].msg = bugTasks[t].sMsg
                     /\ bugTasks[t].sMsg \in DOMAIN board]_vars

\* a call that read the settings before the first board message was posted is
\* about to post a second one
C21_Witness ==
  \E t, u \in Slots :
    /\ bugTasks[t].pc = "r_send" /\ bugTasks[t].sMsg = NoMessage
    /\ bugTasks[u].pc = "r_edit" /\ bugTasks[u].msg = 1
    /\ guildSettings[TheGuild].bug_board_message_id = 1
    /\ Len(board) = 1

C23_BoardCountsAndCards ==
  [][\A t \in Slots :
       bugTasks'[t].pc \in {"r_send", "r_edit"} /\ bugTasks'[t].pc # bugTasks[t].pc =>
         LET items == bugStore[TheGuild].items
             e == bugTasks'[t].embed
             total == Cardinality(DOMAIN items)
             shown == {e.cards[n].id : n \in DOMAIN e.cards}
         IN  /\ e.resolved = Cardinality({i \in DOMAIN items : items[i].status = "RESOLVED"})
             /\ e.open = Cardinality({i \in DOMAIN items : items[i].status # "RESOLVED"})
             /\ e.total = total
             /\ e.open + e.resolved = e.total
             /\ Len(e.cards) = IF total < 20 THEN total ELSE 20
             /\ shown \subseteq DOMAIN items
             /\ \A n \in DOMAIN e.cards : e.cards[n].status = items[e.cards[n].id].status
             /\ \A n \in DOMAIN e.cards : n < Len(e.cards) => e.cards[n].id > e.cards[n + 1].id
             /\ \A i \in DOMAIN items \ shown : \A k \in shown : i < k]_vars

\* a refresh built the board of 22 bugs, open and resolved ones: 20 cards, the
\* first for bug 22, the last for bug 3
C23_Witness ==
  \E t \in Slots :
    /\ bugTasks[t].pc = "r_edit"
    /\ bugTasks[t].embed.total = 22
    /\ bugTasks[t].embed.resolved > 0
    /\ bugTasks[t].embed.open > 0
    /\ Len(bugTasks[t].embed.cards) = 20
    /\ bugTasks[t].embed.cards[1].id = 22
    /\ bugTasks[t].embed.cards[20].id = 3

\* the embed e is the board of the bugs in items: the three counts, and the
\* cards of the newest bugs with their present status and assignee
Shows(e, items) ==
  /\ e.total = Cardinality(DOMAIN items)
  /\ e.resolved = Cardinality({i \in DOMAIN items : items[i].status = "RESOLVED"})
  /\ e.open = e.total - e.resolved
  /\ Len(e.cards) = IF e.total < 20 THEN e.total ELSE 20
  /\ \A n \in DOMAIN e.cards :
       /\ e.cards[n].id = e.total + 1 - n
       /\ e.cards[n].id \in DOMAIN items
       /\ e.cards[n].status = items[e.cards[n].id].status
       /\ e.cards[n].assigned = items[e.cards[n].id].assignedToId

C25_NoSelfVouch ==
  /\ \A n \in DOMAIN vouchStore[TheGuild].items :
       vouchStore[TheGuild].items[n].voucherId # vouchStore[TheGuild].items[n].vouchedId
  /\ [][LET vs == vouchStore[TheGuild]
            after == vouchStore'[TheGuild]
        IN  /\ \A n \in DOMAIN after.items :
                 after.items[n].voucherId # after.items[n].vouchedId
            /\ ev'.op = "vouch" /\ (ev'.target = ev'.by \/ ev'.target = "bot") =>
                 /\ vouchStore' = vouchStore
                 /\ ev'.result \in {"no_self", "no_bot"}
            /\ ev'.op = "vouch" /\ ev'.target # ev'.by /\ ev'.target # "bot" =>
                 /\ after.counter = vs.counter + 1
                 /\ Len(after.items) = Len(vs.items) + 1
                 /\ SubSeq(after.items, 1, Len(vs.items)) = vs.items
                 /\ after.items[Len(after.items)].id = after.counter
                 /\ after.items[Len(after.items)].voucherId = ev'.by
                 /\ after.items[Len(after.items)].vouchedId = ev'.target
                 /\ ev'.result = "added"]_vars

\* a user who vouched twice for the same user has just been turned away from
\* vouching for themselves
C25_Witness ==
  LET items == vouchStore[TheGuild].items IN
  /\ ev.op = "vouch" /\ ev.by = "usr" /\ ev.target = "usr" /\ ev.result = "no_self"
  /\ Len(items) = 2
  /\ items[1].voucherId = "usr" /\ items[2].voucherId = "usr"
  /\ items[1].vouchedId = items[2].vouchedId
  /\ vouchStore[TheGuild].counter = 2

\* C26: /vouchremove removes the vouch with the given id, and only that one,
\* when the invoker is its voucher or has Manage Server; for another invoker
\* and for an unknown id the ledger stays as it is; the id of a removed vouch
\* is never given to a later vouch (ids are distinct, never above the counter,
\* the counter never falls and a new vouch gets an id above it).
C26_VouchRemoveByVoucherOrStaff ==
  [][LET vs == vouchStore[TheGuild]
         after == vouchStore'[TheGuild]
         Ids(items) == {items[n].id : n \in DOMAIN items}
         held == {n \in DOMAIN vs.items : vs.items[n].id = ev'.id}
     IN  /\ ev'.op = "vouchremove" =>
              IF /\ held # {}
                 /\ \E n \in held : ev'.by = "adm" \/ vs.items[n].voucherId = ev'.by
              THEN /\ after.items = SelectSeq(vs.items, LAMBDA v : v.id # ev'.id)
                   /\ Len(after.items) = Len(vs.items) - 1
                   /\ after.counter = vs.counter
                   /\ ev'.result = "removed"
              ELSE /\ vouchStore' = vouchStore
                   /\ ev'.result \in {"not_found", "refused"}
         /\ after.counter >= vs.counter
         /\ \A i \in Ids(after.items) : i <= after.counter
         /\ \A i \in Ids(after.items) \ Ids(vs.items) : i > vs.counter
         /\ Cardinality(Ids(after.items)) = Len(after.items)]_vars

\* a member with Manage Server removed the vouch of somebody else, vouch 1 of
\* three; the two vouches stored since then are numbered 2 and 3
C26_Witness ==
  LET vs == vouchStore[TheGuild] IN
  /\ ev.op = "vouchremove" /\ ev.result = "removed" /\ ev.id = 1
  /\ ev.by = "adm" /\ ev.target = "usr"
  /\ vs.counter = 3
  /\ Len(vs.items) = 2
  /\ vs.items[1].id = 2 /\ vs.items[2].id = 3

\* C27: after every addXp call with a non-negative amount the XP of every user
\* is at least 0 and below 5*L*L + 50*L + 100 for the user's level L; no level
\* ever decreases; and every call of addXp leaves its level-up loop.
C27_XpBelowNextLevel ==
  /\ [](xpCall.pc = "idle" =>
          \A u \in DOMAIN users :
            /\ users[u].xp >= 0
            /\ users[u].xp < 5 * users[u].level * users[u].level + 50 * users[u].level + 100)
  /\ [][\A u \in DOMAIN users : users'[u].level >= users[u].level]_vars
  /\ (xpCall.pc = "loop") ~> (xpCall.pc = "idle")

\* addXp returned after its loop took a user who was one XP short of level 3
\* up by more than one level
C27_Witness ==
  /\ xpCall.pc = "idle"
  /\ ev.op = "addXp" /\ ev.result = "leveledUp" /\ ev.by = "usr"
  /\ ev.call.was = 2
  /\ users["usr"].level >= 4
  /\ users["usr"].xp > 0

\* C28 as stated: a single addXp grant that crosses several thresholds raises
\* the level by more than one in that call; 250 XP granted to a user at level
\* 0 with 0 XP give a level of at least 2.
C28_MultiLevelJump_250 ==
  [][xpCall.pc = "loop" /\ xpCall'.pc = "idle" =>
       LET u == xpCall.user
           L == xpCall.was
       IN  /\ xpCall.xpWas + xpCall.amount >=
                (5 * L * L + 50 * L + 100) + (5 * (L + 1) * (L + 1) + 50 * (L + 1) + 100)
              => users'[u].level > L + 1
           /\ L = 0 /\ xpCall.xpWas = 0 /\ xpCall.amount = 250
              => users'[u].level >= 2]_vars

\* C28, amended: a single addXp grant that crosses several thresholds raises the
\* level by more than one in that call; at level 0 with 0 XP the thresholds
\* are 100 and 155, so 255 XP give level 2 with 0 XP left, while 250 XP give
\* level 1 with 150 XP left.
C28_MultiLevelJump ==
  [][xpCall.pc = "loop" /\ xpCall'.pc = "idle" =>
       LET u == xpCall.user
           L == xpCall.was
       IN  /\ xpCall.xpWas + xpCall.amount >=
                (5 * L * L + 50 * L + 100) + (5 * (L + 1) * (L + 1) + 50 * (L + 1) + 100)
              => users'[u].level > L + 1
           /\ L = 0 /\ xpCall.xpWas = 0 /\ xpCall.amount = 255
              => users'[u].level = 2 /\ users'[u].xp = 0
           /\ L = 0 /\ xpCall.xpWas = 0 /\ xpCall.amount = 250
              => users'[u].level = 1 /\ users'[u].xp = 150]_vars

\* the loop of a call that granted 255 XP to a new user has run twice and is
\* about to return level 2
C28_Witness ==
  /\ xpCall.pc = "loop" /\ xpCall.leveledUp
  /\ xpCall.amount = 255 /\ xpCall.was = 0 /\ xpCall.xpWas = 0
  /\ users[xpCall.user].level = 2
  /\ users[xpCall.user].xp = 0

\* C29: a /daily claim less than 24 hours after the user's last successful
\* claim returns ok:false with 0 < remainingMs <= 24 h and leaves the balance
\* and the time of the last claim as they are; a first claim, and a claim 24
\* hours or more after the last successful one, succeeds, adds a reward of 250
\* to 500 to the balance and sets the time of the last claim to now.
C29_DailyOncePerDay ==
  [][ev'.op = "daily" =>
       LET u == users[ev'.by]
           after == users'[ev'.by]
           day == 86400000
       IN  /\ \A o \in DOMAIN users \ {ev'.by} : users'[o] = users[o]
           /\ after.xp = u.xp /\ after.level = u.level
           /\ IF u.lastDailyMs # 0 /\ wall' - u.lastDailyMs < day
              THEN /\ ev'.result = "wait"
                   /\ ev'.msg > 0 /\ ev'.msg <= day
                   /\ ev'.msg = day - (wall' - u.lastDailyMs)
                   /\ after = u
              ELSE /\ ev'.result = "claimed"
                   /\ ev'.msg >= 250 /\ ev'.msg <= 500
                   /\ after.balance = u.balance + ev'.msg
                   /\ after.lastDailyMs = wall']_vars

\* a user who claimed at time 1 has just been turned away one millisecond
\* before the day was over, with 1 ms remaining and the reward still on the
\* balance
C29_Witness ==
  /\ ev.op = "daily" /\ ev.by = "usr" /\ ev.result = "wait" /\ ev.msg = 1
  /\ users["usr"].lastDailyMs = 1
  /\ wall = 86400000
  /\ users["usr"].balance \in {250, 500}

\* C30: no balance is ever negative; a /pay with an amount of 0 or less, or
\* above the sender's balance, leaves every balance as it is; a /pay that
\* succeeds takes exactly the amount from the sender and gives exactly the
\* amount to the receiver in one step, and touches nobody else.
C30_TransferKeepsBalances ==
  /\ \A u \in DOMAIN users : users[u].balance >= 0
  /\ [][/\ \A u \in DOMAIN users : users'[u].balance >= 0
        /\ ev'.op = "pay" =>
             IF ev'.id <= 0 \/ ev'.id > users[ev'.by].balance
                \/ ev'.target = ev'.by \/ ev'.target = "bot"
             THEN /\ users' = users
                  /\ ev'.result # "paid"
             ELSE /\ ev'.result = "paid"
                  /\ users'[ev'.by].balance = users[ev'.by].balance - ev'.id
                  /\ users'[ev'.target].balance = users[ev'.target].balance + ev'.id
                  /\ \A o \in DOMAIN users \ {ev'.by, ev'.target} : users'[o] = users[o]
                  /\ \A o \in DOMAIN users :
                       /\ users'[o].lastDailyMs = users[o].lastDailyMs
                       /\ users'[o].xp = users[o].xp
                       /\ users'[o].level = users[o].level]_vars

\* a user paid the whole daily reward of 250 to another user and has nothing
\* left; the receiver, who had claimed 500, now has 750
C30_Witness ==
  /\ ev.op = "pay" /\ ev.result = "paid" /\ ev.id = 250
  /\ users[ev.by].balance = 0
  /\ users[ev.by].lastDailyMs # 0
  /\ users[ev.target].balance = 750

\* C31: every exception raised while handling an interaction is caught at the
\* dispatch boundary and answered with a failure reply; when creating the
\* ticket channel throws, the requester is answered both for /ticket create
\* and for the panel button.
C31_ExceptionsAnswered ==
  [][(ev'.op = "create" /\ ev'.result \in {"error_reply", "unhandled"}) =>
       ev'.result = "error_reply"]_vars

\* the command path: channel creation threw inside the try block and the
\* requester got the generic failure reply
C31_Witness ==
  /\ ev.op = "create" /\ ev.via = "cmd" /\ ev.result = "error_reply"
  /\ \E g \in Guilds : Len(allocs[g]) >= 1

\* C32: of two close requests for one open ticket handled concurrently, with
\* every interleaving at the awaits, exactly one closeTicketChannel call gets
\* past the guard and returns ok:true and the other returns ok:false: the
\* closing notice is sent by one call only and one deletion is scheduled.
C32_ConcurrentCloseOnce ==
  /\ [](\A c \in ChanIds :
          LET closing  == {t \in Slots : tasks[t].pc \in {"cl_notice", "cl_log"}
                                         /\ tasks[t].ch = c}
              returned == timers[c] + deleteCalls[c]
          IN  /\ Cardinality(closing) + returned <= 1
              /\ notices[c] <= 1
              /\ tickets[c].status = "closed" <=> Cardinality(closing) + returned = 1
              /\ notices[c] = 1 => tickets[c].status = "closed")
  /\ [][\A c \in ChanIds :
          (/\ ev'.closeCall.g # Null /\ ev'.closeCall.c = c
           /\ \/ \E t \in Slots : tasks[t].pc \in {"cl_notice", "cl_log"} /\ tasks[t].ch = c
              \/ timers[c] + deleteCalls[c] >= 1) =>
             /\ ev'.result = "not_open"
             /\ UNCHANGED <<tickets, notices, tried, timers, deleteCalls>>]_vars

\* the second /ticket close of src/index.js was answered ok:false while the
\* first call is still awaiting its closing notice
C32_Witness ==
  /\ variant = "index"
  /\ ev.op = "close" /\ ev.result = "not_open" /\ ev.closeCall.c \in ChanIds
  /\ \E t \in Slots : tasks[t].pc = "cl_notice" /\ tasks[t].ch = ev.closeCall.c
  /\ notices[ev.closeCall.c] = 0 /\ timers[ev.closeCall.c] = 0

\* C33: add, remove, claim, assign and unassign update the sets of the ticket
\* whether or not the permission-overwrite call succeeded, and the command
\* goes on to its success answer: add inserts the user into addedUserIds,
\* remove deletes the user from addedUserIds and assignedStaffIds,
\* claim and assign insert into and unassign deletes from assignedStaffIds only.
C33_SetsUpdatedRegardless ==
  [][\A c \in ChanIds :
       LET a == tickets[c]  b == tickets'[c]  u == ev'.target
           here(op, result) == ev'.op = op /\ ev'.result = result /\ ev'.ch = c
           inserted == here("claim", "permitted") \/ here("assign", "assigned")
                       \/ (variant = "p001" /\ here("assign", "permitted"))
       IN  /\ here("add", "added") =>
                b = [a EXCEPT !.addedUserIds = @ \cup {u}]
           /\ here("remove", "removed") =>
                b = [a EXCEPT !.addedUserIds = @ \ {u}, !.assignedStaffIds = @ \ {u}]
           /\ inserted => b = [a EXCEPT !.assignedStaffIds = @ \cup {u}]
           /\ here("claim", "permitted") => u = ev'.by
           /\ here("unassign", "permitted") =>
                b = [a EXCEPT !.assignedStaffIds = @ \ {u}]
           /\ \A t \in Slots :
                (tasks[t].ch = c /\ tasks[t].pc \in {"grant", "revoke"}
                 /\ tasks'[t] # tasks[t]) =>
                   b = a /\ tasks'[t].pc = "t_send"
           /\ \A t \in Slots :
                (tasks[t].ch = c /\ tasks[t].pc \in {"add_grant", "rm_revoke"}
                 /\ tasks'[t] # tasks[t]) =>
                   tasks'[t].pc \in {"t_send", "t_log"}]_vars

\* /ticket add went on although the overwrite of the live channel was not
\* written: the user is in addedUserIds without access
C33_Witness ==
  /\ ev.op = "add" /\ ev.result = "added" /\ ev.ch \in ChanIds
  /\ chanState[ev.ch] = "live"
  /\ ev.target \in tickets[ev.ch].addedUserIds
  /\ ev.target \notin overwrites[ev.ch]
  /\ ev.target \notin tickets[ev.ch].assignedStaffIds

\* C34: while a ticket is open its owner keeps the channel access granted at
\* creation: no sequence of add, remove, claim, assign and unassign, with any
\* target user, deletes the owner's permission overwrite.
C34_OwnerKeepsAccess ==
  \A c \in ChanIds :
    (tickets[c].status = "open" /\ chanState[c] = "live") =>
       tickets[c].ownerId \in overwrites[c]

\* another user was removed from the open ticket and the owner still has the
\* overwrite of the creation
C34_Witness ==
  /\ ev.op = "remove" /\ ev.result = "removed" /\ ev.ch \in ChanIds
  /\ tickets[ev.ch].status = "open" /\ chanState[ev.ch] = "live"
  /\ ev.target # tickets[ev.ch].ownerId
  /\ tickets[ev.ch].ownerId \in overwrites[ev.ch]

\* C35: assuming every permission-overwrite call succeeds, after any sequence
\* of add, remove, claim, assign and unassign a user other than the owner and
\* the bot has an overwrite on the ticket channel if and only if the user is
\* in addedUserIds or in assignedStaffIds.
C35_AccessIffInSets ==
  \A c \in ChanIds :
    (/\ chanState[c] = "live" /\ tickets[c].status # "none"
     /\ \A t \in Slots : tasks[t].ch = c =>
          tasks[t].pc \notin {"add_grant", "rm_revoke", "as_fetch", "grant", "revoke"}) =>
       \A u \in Targets \ {tickets[c].ownerId} :
          u \in overwrites[c] <=>
            u \in tickets[c].addedUserIds \cup tickets[c].assignedStaffIds

\* a staff member who is not the owner claimed the ticket: member of
\* assignedStaffIds, with the overwrite, no handler in flight
C35_Witness ==
  \E c \in ChanIds, u \in Users :
    /\ chanState[c] = "live" /\ tickets[c].status = "open"
    /\ \A t \in Slots : tasks[t].pc = "idle"
    /\ u # tickets[c].ownerId
    /\ tickets[c].assignedStaffIds = {u} /\ tickets[c].addedUserIds = {}
    /\ overwrites[c] = {tickets[c].ownerId, Me, u}
    /\ ev.result = "done" /\ ev.op = "claim"

\* C36: once a ticket is closed, the ticket commands issued in its channel
\* before the channel is deleted no longer change it: add, remove, claim,
\* assign and unassign leave addedUserIds, assignedStaffIds and the
\* permission overwrites of the channel unchanged.
C36_ClosedTicketFrozen ==
  [][\A c \in ChanIds :
       tickets[c].status = "closed" =>
         /\ tickets'[c].addedUserIds = tickets[c].addedUserIds
         /\ tickets'[c].assignedStaffIds = tickets[c].assignedStaffIds
         /\ chanState'[c] = "live" => overwrites'[c] = overwrites[c]]_vars

\* a command issued in the channel of the closed ticket was turned away: the
\* sets and the overwrites are those of the closing
C36_Witness ==
  /\ ev.op = "add" /\ ev.result = "refused" /\ ev.ch = 1
  /\ tickets[1].status = "closed" /\ chanState[1] = "live"
  /\ tickets[1].addedUserIds = {} /\ tickets[1].assignedStaffIds = {}
  /\ overwrites[1] = {tickets[1].ownerId, Me}

\* C37: whenever the stored board message reference of a guild is non-null it
\* identifies a message that was posted in the board channel configured now,
\* also when a refresh that started before /setbugchannels finishes after it.
C37_BoardRefInBoardChannel ==
  LET s == guildSettings[TheGuild] IN
  s.bug_board_message_id # NoMessage =>
    /\ s.bug_board_message_id \in DOMAIN board
    /\ boardAt[s.bug_board_message_id] = s.bug_board_channel_id

\* the refresh of /setbugchannels itself posted the board in the new channel
\* and stored its id
C37_Witness ==
  LET s == guildSettings[TheGuild] IN
  /\ ev.op = "setbugchannels" /\ ev.result = "board_posted"
  /\ s.bug_board_channel_id = OtherBoard
  /\ s.bug_board_message_id = Len(board)
  /\ boardAt[s.bug_board_message_id] = OtherBoard
  /\ \A t \in Slots : bugTasks[t].pc \notin {"r_chan", "r_msg", "r_send"}

\* C38: under any interleaving of concurrent board refreshes of one guild
\* whose board channel stays the same and whose platform calls all succeed,
\* at most one board message is ever posted in that channel.
C38_SingleBoardMessage ==
  Cardinality({m \in DOMAIN board : boardAt[m] = BoardChannel}) <= 1

\* the second of two handlers found the stored board message and edits it:
\* the channel still holds the one message
C38_Witness ==
  /\ Len(board) = 1 /\ boardAt = <<BoardChannel>>
  /\ guildSettings[TheGuild].bug_board_message_id = 1
  /\ bugOps = 2
  /\ \E t \in Slots : /\ bugTasks[t].pc = "r_edit" /\ bugTasks[t].sMsg = 1
                      /\ bugTasks[t].msg = 1
  /\ \E t \in Slots : bugTasks[t].pc = "idle"

\* C39: a bug report submitted through the report modal yields exactly one bug
\* record: the message the bot posts into the input channel for the report is
\* not ingested again by the message handler, so one submission consumes
\* exactly one bug id.
C39_OneRecordPerReport ==
  /\ [](LET items == bugStore[TheGuild].items IN
        \A i, j \in DOMAIN items :
           (items[i].sourceMessageId > 20
            /\ items[i].sourceMessageId = items[j].sourceMessageId) => i = j)
  /\ [][/\ (ev'.op = "message" /\ ev'.by = Me) =>
             /\ ev'.result = "ignored"
             /\ UNCHANGED <<bugStore, bugTasks, board, guildSettings>>
        /\ (ev'.op = "report" /\ ev'.result = "saved") =>
             LET a == bugStore[TheGuild]  b == bugStore'[TheGuild] IN
             /\ b.counter = a.counter + 1
             /\ DOMAIN b.items = DOMAIN a.items \cup {b.counter}
             /\ \A i \in DOMAIN a.items : b.items[i] = a.items[i]]_vars

\* the message of a saved report came back through messageCreate and was
\* ignored: the store holds the one record of the submission
C39_Witness ==
  /\ ev.op = "message" /\ ev.by = Me /\ ev.result = "ignored"
  /\ ev.inCh = InputChannel /\ ev.msg = 21
  /\ bugStore[TheGuild].counter = 1
  /\ DOMAIN bugStore[TheGuild].items = {1}
  /\ bugStore[TheGuild].items[1].sourceMessageId = 21

\* C40: a bug record is stored only after its report message was posted: when
\* a report is submitted by modal or by command and the post fails or the
\* channel is not configured or not text-based, the user gets a failure
\* reply, no record is created and no bug id is consumed.
C40_RecordOnlyAfterPost ==
  [][/\ bugStore'[TheGuild].counter # bugStore[TheGuild].counter =>
          /\ ev'.op = "report" /\ "report" \in ev'.posts
          /\ bugStore'[TheGuild].counter = bugStore[TheGuild].counter + 1
     /\ (/\ ev'.op = "report"
         /\ ev'.result \in {"not_configured", "invalid_channel", "post_failed"}) =>
          /\ bugStore' = bugStore
          /\ ev'.id \notin DOMAIN bugStore'[TheGuild].items
          /\ bugStore'[TheGuild].counter = Cardinality(DOMAIN bugStore'[TheGuild].items)
          /\ \A id \in DOMAIN bugStore'[TheGuild].items :
               bugStore'[TheGuild].items[id].sourceMessageId # NoMessage]_vars

\* the modal of src/index.js: the post of the report failed, the user was
\* told so, the store is empty and the counter is where it was
C40_Witness ==
  /\ variant = "index"
  /\ ev.op = "report" /\ ev.result = "post_failed"
  /\ bugStore[TheGuild].counter = 0
  /\ DOMAIN bugStore[TheGuild].items = {}
  /\ \A t \in Slots : bugTasks[t].pc = "idle"

====
